---- MODULE Spec2Model ----
(***************************************************************************)
(* A model of the metadata normalisation and enrichment engine of          *)
(* Image-Extractor: the GPS resolver (src/src/core/gps_parser.py), the     *)
(* device identifier (src/src/core/device_identifier.py) and the           *)
(* orchestrator and tag normaliser (src/src/core/metadata_extractor.py).   *)
(*                                                                         *)
(* A metadata record (a Python dict) is a function from the keys present   *)
(* to values.  A value is a record tagged by its Python shape (field t).   *)
(* Text is a sequence of one-character strings, so that substring tests,   *)
(* case folding and edit distance are computed and not assumed.            *)
(* Angles are integers in thousandths of an arc second (DegUnit per        *)
(* degree), which represents degrees/minutes/seconds sums exactly.         *)
(***************************************************************************)
EXTENDS Integers, Sequences, FiniteSets, TLC

VARIABLES
    pc,               \* position of the operation being run
    metadata,         \* the record handed to the operation
    tier,             \* GPS resolver: the detection tier chosen (0 = not yet)
    tiers_run,        \* GPS resolver: the tier parsers that have run
    gps_info,         \* GPS resolver: the mapping being built / returned
    make,             \* device identifier: the manufacturer
    model,            \* device identifier: the model
    device_type,      \* device identifier: the device type
    assessment,       \* privacy assessment: the mapping being built / returned
    sensitive_fields, \* privacy assessment: the local list sensitive_fields
    device_db,        \* device identifier: the device database
    levenshtein,      \* whether the Levenshtein package can be imported
    lookup_tier,      \* database lookup: the loop that returned (0 = none)
    db_info,          \* database lookup: the mapping returned
    tags,             \* decoders: the raw tags handed to the operation
    raised,           \* the exception the operation raised ("" = none)
    sources,          \* orchestrator: what the decoders of one file delivered
    device_profile,   \* orchestrator: the mapping identify_device returned
    calls,            \* orchestrator: the components invoked, with arguments
    key_order,        \* orchestrator: the keys of the returned record, in order
    geocoding_cache,  \* GPS resolver: the cache of reverse_geocode results
    geo_log,          \* GPS resolver: the reverse_geocode calls made so far
    updater,          \* device identifier: a thread in update_device_database
    processing,       \* main window: self.processing
    current_file,     \* main window: self.current_file
    current_metadata, \* main window: self.current_metadata
    result_view,      \* main window: what the result view displays
    threads,          \* main window: the worker threads started so far
    after_queue,      \* main window: the callbacks scheduled with root.after
    heap              \* the mappings that exist during a call, by identity

gpsVars == <<tier, tiers_run, gps_info>>
privacyVars == <<device_type, assessment, sensitive_fields>>
deviceVars == <<make, model>>
lookupVars == <<device_db, levenshtein, lookup_tier, db_info>>
decoderVars == <<tags, raised>>
extractVars == <<sources, device_profile, calls, key_order>>
geoVars == <<geocoding_cache, geo_log>>
updateVars == <<updater>>
frameVars == <<heap>>
guiVars ==
    <<processing, current_file, current_metadata, result_view, threads,
      after_queue>>
otherVars ==
    <<gpsVars, privacyVars, deviceVars, lookupVars, decoderVars, extractVars,
      geoVars, updateVars, guiVars, frameVars>>
vars == <<pc, metadata, otherVars>>
\* what each operation leaves alone
outsideGps ==
    <<privacyVars, deviceVars, lookupVars, decoderVars, extractVars, geoVars, updateVars, guiVars, frameVars>>
outsidePrivacy ==
    <<gpsVars, deviceVars, lookupVars, decoderVars, extractVars, geoVars, updateVars, guiVars, frameVars>>
outsideDeviceType ==
    <<gpsVars, assessment, sensitive_fields, lookupVars, decoderVars,
      extractVars, geoVars, updateVars, guiVars, frameVars>>
outsideLookup ==
    <<metadata, gpsVars, privacyVars, deviceVars, decoderVars, extractVars,
      geoVars, updateVars, guiVars, frameVars>>
outsideDecoders ==
    <<gpsVars, privacyVars, deviceVars, lookupVars, extractVars, geoVars, updateVars, guiVars, frameVars>>
outsideExtract ==
    <<tier, tiers_run, privacyVars, deviceVars, device_db, levenshtein,
      lookup_tier, db_info, tags, geoVars, updateVars, guiVars, frameVars>>

(***************************************************************************)
(* Bounds of the model.                                                    *)
(***************************************************************************)
MaxGpsKeys == 3      \* keys in a record handed to the GPS resolver
MaxPrivacyKeys == 3  \* keys in a record handed to the privacy assessment

(***************************************************************************)
(* Values.                                                                 *)
(***************************************************************************)
DegUnit == 60 * 60 * 1000
MinUnit == 60 * 1000
SecUnit == 1000

None == [t |-> "none"]
Num(n) == [t |-> "num", n |-> n]
\* text that is neither a number nor a coordinate
Str(w) == [t |-> "str", w |-> w]
\* text that float() parses, e.g. "40.7128"
NumStr(n) == [t |-> "numstr", n |-> n]
\* text of the form D° M' S.SS" DIR; s in hundredths of a second
DmsStr(d, m, s, dir) == [t |-> "dms", d |-> d, m |-> m, s |-> s, dir |-> dir]
\* text of the form D.DDD° DIR
SimpleDmsStr(n, dir) == [t |-> "sdms", n |-> n, dir |-> dir]
\* text of the form "lat, lon" with decimal numbers
PairStr(lat, lon) == [t |-> "pairstr", lat |-> lat, lon |-> lon]
\* text of the form "D° M' S" NS, D° M' S" EW"
DmsPairStr(lat, lon) == [t |-> "dmspair", lat |-> lat, lon |-> lon]
\* a list / tuple / mapping of degrees, minutes, seconds (s in thousandths)
List3(d, m, s) == [t |-> "list3", d |-> d, m |-> m, s |-> s]
Tuple3(d, m, s) == [t |-> "tuple3", d |-> d, m |-> m, s |-> s]
Dict3(d, m, s) == [t |-> "dict3", d |-> d, m |-> m, s |-> s]
\* a byte string holding the ASCII text w
Bytes(w) == [t |-> "bytes", w |-> w]

IsStr(v) == v.t \in {"str", "numstr", "dms", "sdms", "pairstr", "dmspair"}
IsNumber(v) == v.t = "num"

\* Python truthiness of a value
Truthy(v) ==
    CASE v.t = "none" -> FALSE
      [] v.t = "num" -> v.n # 0
      [] v.t \in {"str", "bytes"} -> v.w # <<>>
      [] OTHER -> TRUE

Has(md, k) == k \in DOMAIN md
Empty == <<>>
Put(md, k, v) == (k :> v) @@ md
\* dict.update: the entries of upd replace those of md
Update(md, upd) == upd @@ md

RECURSIVE AnyIn(_, _)
AnyIn(keys, md) ==
    IF keys = <<>> THEN FALSE
    ELSE Has(md, Head(keys)) \/ AnyIn(Tail(keys), md)

Abs(n) == IF n < 0 THEN -n ELSE n

\* round(n / d) for d > 0: to the nearest integer, a tie to the even one
RoundHalfEven(n, d) ==
    LET q == Abs(n) \div d
        r == Abs(n) % d
        up == 2 * r > d \/ (2 * r = d /\ q % 2 = 1)
        rounded == IF up THEN q + 1 ELSE q
    IN  IF n < 0 THEN -rounded ELSE rounded

\* separator.join(texts)
RECURSIVE JoinWith(_, _)
JoinWith(separator, texts) ==
    IF texts = <<>> THEN <<>>
    ELSE IF Len(texts) = 1 THEN texts[1]
    ELSE texts[1] \o separator \o JoinWith(separator, Tail(texts))

(***************************************************************************)
(* Text: a sequence of one-character strings.                              *)
(***************************************************************************)
UpperLetters ==
    <<"A", "B", "C", "D", "E", "F", "G", "H", "I", "J", "K", "L", "M",
       "N", "O", "P", "Q", "R", "S", "T", "U", "V", "W", "X", "Y", "Z">>
LowerLetters ==
    <<"a", "b", "c", "d", "e", "f", "g", "h", "i", "j", "k", "l", "m",
       "n", "o", "p", "q", "r", "s", "t", "u", "v", "w", "x", "y", "z">>
\* str.lower() of one character
LowerChar(c) ==
    IF \E i \in DOMAIN UpperLetters : UpperLetters[i] = c
    THEN LowerLetters[CHOOSE i \in DOMAIN UpperLetters : UpperLetters[i] = c]
    ELSE c
\* str.lower()
Lower(w) == [i \in DOMAIN w |-> LowerChar(w[i])]
\* sub in w
Contains(sub, w) ==
    \E i \in 0..(Len(w) - Len(sub)) : SubSeq(w, i + 1, i + Len(sub)) = sub
\* any(word in w for word in words)
AnyContained(words, w) == \E word \in words : Contains(word, w)

(***************************************************************************)
(* Device identifier: the device type.                                     *)
(***************************************************************************)
Smartphone == Str(<<"S", "m", "a", "r", "t", "p", "h", "o", "n", "e">>)
Tablet == Str(<<"T", "a", "b", "l", "e", "t">>)
Camera == Str(<<"C", "a", "m", "e", "r", "a">>)
Drone == Str(<<"D", "r", "o", "n", "e">>)
ActionCamera == Str(<<"A", "c", "t", "i", "o", "n", " ", "C", "a", "m", "e", "r", "a">>)
DigitalCamera == Str(<<"D", "i", "g", "i", "t", "a", "l", " ", "C", "a", "m", "e", "r", "a">>)

smartphone_manufacturers ==
    { <<"a", "p", "p", "l", "e">>,
      <<"i", "p", "h", "o", "n", "e">>,
      <<"s", "a", "m", "s", "u", "n", "g">>,
      <<"h", "u", "a", "w", "e", "i">>,
      <<"x", "i", "a", "o", "m", "i">>,
      <<"g", "o", "o", "g", "l", "e">>,
      <<"p", "i", "x", "e", "l">>,
      <<"o", "n", "e", "p", "l", "u", "s">>,
      <<"o", "p", "p", "o">>,
      <<"v", "i", "v", "o">>,
      <<"m", "o", "t", "o", "r", "o", "l", "a">>,
      <<"l", "g">>,
      <<"h", "t", "c">>,
      <<"n", "o", "k", "i", "a">>,
      <<"a", "s", "u", "s">>,
      <<"l", "e", "n", "o", "v", "o">>,
      <<"z", "t", "e">>,
      <<"r", "e", "a", "l", "m", "e">>,
      <<"h", "o", "n", "o", "r">>,
      <<"p", "o", "c", "o">> }
tablet_indicators ==
    { <<"i", "p", "a", "d">>,
      <<"t", "a", "b">>,
      <<"t", "a", "b", "l", "e", "t">>,
      <<"p", "a", "d">>,
      <<"g", "a", "l", "a", "x", "y", " ", "t", "a", "b">> }
camera_manufacturers ==
    { <<"c", "a", "n", "o", "n">>,
      <<"n", "i", "k", "o", "n">>,
      <<"s", "o", "n", "y">>,
      <<"f", "u", "j", "i">>,
      <<"f", "u", "j", "i", "f", "i", "l", "m">>,
      <<"o", "l", "y", "m", "p", "u", "s">>,
      <<"p", "a", "n", "a", "s", "o", "n", "i", "c">>,
      <<"p", "e", "n", "t", "a", "x">>,
      <<"l", "e", "i", "c", "a">>,
      <<"h", "a", "s", "s", "e", "l", "b", "l", "a", "d">>,
      <<"k", "o", "d", "a", "k">>,
      <<"s", "i", "g", "m", "a">>,
      <<"r", "i", "c", "o", "h">> }
drone_manufacturers ==
    { <<"d", "j", "i">>,
      <<"p", "a", "r", "r", "o", "t">>,
      <<"a", "u", "t", "e", "l">>,
      <<"s", "k", "y", "d", "i", "o">>,
      <<"y", "u", "n", "e", "e", "c">> }
action_camera_indicators ==
    { <<"g", "o", "p", "r", "o">>,
      <<"h", "e", "r", "o">>,
      <<"a", "c", "t", "i", "o", "n">>,
      <<"i", "n", "s", "t", "a", "3", "6", "0">> }
phone_indicators ==
    { <<"p", "h", "o", "n", "e">>,
      <<"s", "m", "a", "r", "t", "p", "h", "o", "n", "e">> }
camera_indicators ==
    { <<"c", "a", "m", "e", "r", "a">>,
      <<"d", "s", "l", "r">>,
      <<"m", "i", "r", "r", "o", "r", "l", "e", "s", "s">> }
drone_indicators ==
    { <<"d", "r", "o", "n", "e">> }
lens_indicators == { "Lens", "LensModel", "LensInfo", "LensSerialNumber" }

\* make.lower() if make else ""
LowerOrEmpty(v) == IF Truthy(v) THEN Lower(v.w) ELSE <<>>

\* the rules with the lens keys consulted before the manufacturer lists
ClassifyLensFirst(mk, mdl, md) ==
    IF \E key \in lens_indicators : Has(md, key) THEN Camera
    ELSE IF AnyContained(smartphone_manufacturers, LowerOrEmpty(mk))
         THEN Smartphone
    ELSE IF Truthy(mk) \/ Truthy(mdl) THEN DigitalCamera
    ELSE None

\* the rules that follow the two early returns, in the order of the code
ClassifyByRules(mk, mdl, md) ==
    LET make_lower == LowerOrEmpty(mk)
        model_lower == LowerOrEmpty(mdl)
    IN  IF AnyContained(smartphone_manufacturers, make_lower)
        THEN IF AnyContained(tablet_indicators, model_lower)
             THEN Tablet ELSE Smartphone
        ELSE IF AnyContained(camera_manufacturers, make_lower) THEN Camera
        ELSE IF AnyContained(drone_manufacturers, make_lower) THEN Drone
        ELSE IF \/ AnyContained(action_camera_indicators, make_lower)
                \/ AnyContained(action_camera_indicators, model_lower)
             THEN ActionCamera
        ELSE IF model_lower # <<>> /\ AnyContained(phone_indicators, model_lower)
             THEN Smartphone
        ELSE IF model_lower # <<>> /\ AnyContained(camera_indicators, model_lower)
             THEN Camera
        ELSE IF model_lower # <<>> /\ AnyContained(drone_indicators, model_lower)
             THEN Drone
        ELSE IF \E key \in lens_indicators : Has(md, key) THEN Camera
        ELSE IF /\ Has(md, "FocalLength") \/ Has(md, "FNumber")
                /\ Has(md, "ISO") /\ Has(md, "ExposureTime")
             THEN Camera
        ELSE IF Truthy(mk) \/ Truthy(mdl) THEN DigitalCamera
        ELSE None

\* the classification without the return for an unknown make and model
identify_device_type_unguarded(mk, mdl, md) ==
    IF Has(md, "DeviceType") THEN md["DeviceType"]
    ELSE ClassifyByRules(mk, mdl, md)

identify_device_type(mk, mdl, md) ==
    IF Has(md, "DeviceType") THEN md["DeviceType"]
    ELSE IF ~Truthy(mk) /\ ~Truthy(mdl) THEN None
    ELSE ClassifyByRules(mk, mdl, md)

(***************************************************************************)
(* GPS resolver: tier detection.                                           *)
(***************************************************************************)
ExifGpsTags ==
    << "GPS:GPSLatitude", "GPS:GPSLongitude", "GPSLatitude", "GPSLongitude",
       "GPS:Latitude", "GPS:Longitude", "GPS GPSLatitude", "GPS GPSLongitude",
       "EXIF:GPSLatitude", "EXIF:GPSLongitude" >>

XmpGpsTags ==
    << "XMP:GPSLatitude", "XMP:GPSLongitude", "XMP:Latitude", "XMP:Longitude",
       "XMP-exif:GPSLatitude", "XMP-exif:GPSLongitude" >>

IptcLocationTags ==
    << "IPTC:City", "IPTC:Province-State", "IPTC:Country",
       "IPTC:Sub-location", "IPTC:LocationCode", "IPTC:LocationName" >>

has_exif_gps_tags(md) == AnyIn(ExifGpsTags, md)
has_xmp_gps_tags(md) == AnyIn(XmpGpsTags, md)
has_iptc_location_tags(md) == AnyIn(IptcLocationTags, md)

(***************************************************************************)
(* GPS resolver: coordinate decoding.                                      *)
(***************************************************************************)
NoCoord == [ok |-> FALSE, v |-> 0]
Coord(n) == [ok |-> TRUE, v |-> n]

\* dms_to_decimal: ok = FALSE stands for the ValueError it raises
dms_to_decimal(v) ==
    CASE v.t = "dms" ->
           LET decimal == v.d * DegUnit + v.m * MinUnit + v.s * 10
           IN  Coord(IF v.dir \in {"S", "W"} THEN -decimal ELSE decimal)
      [] v.t = "sdms" ->
           Coord(IF v.dir \in {"S", "W"} THEN -v.n ELSE v.n)
      [] v.t = "numstr" -> Coord(v.n)
      [] OTHER -> NoCoord

\* the value of one key, decoded by shape; ok = FALSE: fall through to the next key
DecodeCoordinate(v) ==
    CASE v.t = "num" -> Coord(v.n)
      [] v.t = "numstr" -> Coord(v.n)
      [] IsStr(v) /\ v.t # "numstr" -> dms_to_decimal(v)
      [] v.t \in {"list3", "tuple3", "dict3"} ->
           Coord(v.d * DegUnit + v.m * MinUnit + v.s)
      [] OTHER -> NoCoord

RECURSIVE extract_gps_coordinate(_, _)
extract_gps_coordinate(md, possible_keys) ==
    IF possible_keys = <<>> THEN NoCoord
    ELSE LET key == Head(possible_keys)
             got == IF Has(md, key) THEN DecodeCoordinate(md[key]) ELSE NoCoord
         IN  IF got.ok THEN got
             ELSE extract_gps_coordinate(md, Tail(possible_keys))

RefLetters == { <<"N">>, <<"S">>, <<"E">>, <<"W">> }

RECURSIVE extract_gps_ref(_, _, _)
extract_gps_ref(md, possible_keys, default) ==
    IF possible_keys = <<>> THEN default
    ELSE LET key == Head(possible_keys)
             v == IF Has(md, key) THEN md[key] ELSE None
         IN  IF v.t \in {"str", "bytes"} /\ v.w \in RefLetters
             THEN v.w[1]
             ELSE extract_gps_ref(md, Tail(possible_keys), default)

(***************************************************************************)
(* Numbers that are quotients (float(n) / d).                              *)
(***************************************************************************)
RECURSIVE GCD(_, _)
GCD(a, b) == IF b = 0 THEN a ELSE GCD(b, a % b)

\* a Fraction object (fractions.Fraction, exifread's Ratio)
Frac(n, d) == [t |-> "frac", n |-> n, d |-> d]

\* the float n / d for d # 0: an integer value when d divides n
Quotient(n, d) ==
    LET sgn == IF (n < 0) = (d < 0) THEN 1 ELSE -1
        g == GCD(Abs(n), Abs(d))
    IN  IF Abs(n) % Abs(d) = 0 THEN Num(sgn * (Abs(n) \div Abs(d)))
        ELSE [t |-> "quot", n |-> sgn * (Abs(n) \div g), d |-> Abs(d) \div g]

Neg(v) == IF v.t = "num" THEN Num(-v.n) ELSE [v EXCEPT !.n = -v.n]

(***************************************************************************)
(* GPS resolver: tier 1 (EXIF-style keys).                                 *)
(***************************************************************************)
NoValue == [ok |-> FALSE, v |-> None]
Value(v) == [ok |-> TRUE, v |-> v]

\* one altitude key: the float it holds, or nothing (try the next key)
DecodeAltitude(v) ==
    CASE v.t = "num" -> Value(v)
      [] v.t = "numstr" -> Value(Num(v.n))
      [] v.t = "frac" /\ v.d # 0 -> Value(Quotient(v.n, v.d))
      [] OTHER -> NoValue

\* 0, '0', b'0' -> 0;  1, '1', b'1' -> 1;  anything else: try the next key
DecodeAltitudeRef(v) ==
    CASE v.t \in {"num", "numstr"} /\ v.n \in {0, 1} -> Value(Num(v.n))
      [] v.t = "bytes" /\ v.w \in { <<"0">>, <<"1">> }
           -> Value(Num(IF v.w = <<"1">> THEN 1 ELSE 0))
      [] OTHER -> NoValue

\* GPSTimeStamp: a string as it is, a 3-element list as HH:MM:SS
DecodeTimeStamp(v) ==
    CASE IsStr(v) -> Value(v)
      [] v.t = "list3" -> Value([t |-> "hms", h |-> v.d, m |-> v.m, s |-> v.s \div SecUnit])
      [] OTHER -> NoValue

DecodeDateStamp(v) == IF IsStr(v) THEN Value(v) ELSE NoValue

\* GPSImgDirection, GPSSpeed: a number, a numeric string or a Fraction
DecodeFloat(v) ==
    CASE v.t = "num" -> Value(v)
      [] v.t = "numstr" -> Value(Num(v.n))
      [] v.t = "frac" /\ v.d # 0 -> Value(Quotient(v.n, v.d))
      [] OTHER -> NoValue

SpeedRefName(w) ==
    CASE w = <<"K">> -> <<"k", "m", "/", "h">>
      [] w = <<"M">> -> <<"m", "p", "h">>
      [] OTHER -> <<"k", "n", "o", "t", "s">>

DecodeSpeedRef(v) ==
    IF v.t \in {"str", "bytes"} /\ v.w \in { <<"K">>, <<"M">>, <<"N">> }
    THEN Value(Str(SpeedRefName(v.w)))
    ELSE NoValue

\* the decoder of one kind of field, applied to the value of one key
Decode(kind, v) ==
    CASE kind = "altitude" -> DecodeAltitude(v)
      [] kind = "altitude_ref" -> DecodeAltitudeRef(v)
      [] kind = "timestamp" -> DecodeTimeStamp(v)
      [] kind = "datestamp" -> DecodeDateStamp(v)
      [] kind = "float" -> DecodeFloat(v)
      [] kind = "speed_ref" -> DecodeSpeedRef(v)

\* the loop "for key in keys: if key in metadata: ... break": the first key
\* whose value decodes
RECURSIVE FirstDecoded(_, _, _)
FirstDecoded(md, keys, kind) ==
    IF keys = <<>> THEN NoValue
    ELSE LET got == IF Has(md, Head(keys)) THEN Decode(kind, md[Head(keys)])
                    ELSE NoValue
         IN  IF got.ok THEN got ELSE FirstDecoded(md, Tail(keys), kind)

AltitudeKeys ==
    << "GPS:GPSAltitude", "GPSAltitude", "GPS GPSAltitude", "EXIF:GPSAltitude" >>
AltitudeRefKeys ==
    << "GPS:GPSAltitudeRef", "GPSAltitudeRef", "GPS GPSAltitudeRef",
       "EXIF:GPSAltitudeRef" >>

extract_gps_altitude(md) ==
    LET altitude == FirstDecoded(md, AltitudeKeys, "altitude")
        ref == FirstDecoded(md, AltitudeRefKeys, "altitude_ref")
        altitude_ref == IF ref.ok THEN ref.v.n ELSE 0
    IN  IF ~altitude.ok THEN NoValue
        ELSE IF altitude_ref = 0 THEN altitude ELSE Value(Neg(altitude.v))

PutIf(info, k, got) == IF got.ok THEN Put(info, k, got.v) ELSE info
\* mapping[key] = value if the test holds
PutWhen(test, mapping, key, value) ==
    IF test THEN Put(mapping, key, value) ELSE mapping

extract_additional_gps_info(md, info) ==
    LET i1 == PutIf(info, "GPSTimeStamp", FirstDecoded(md,
                  << "GPS:GPSTimeStamp", "GPSTimeStamp", "GPS GPSTimeStamp",
                     "EXIF:GPSTimeStamp" >>, "timestamp"))
        i2 == PutIf(i1, "GPSDateStamp", FirstDecoded(md,
                  << "GPS:GPSDateStamp", "GPSDateStamp", "GPS GPSDateStamp",
                     "EXIF:GPSDateStamp" >>, "datestamp"))
        i3 == PutIf(i2, "GPSDirection", FirstDecoded(md,
                  << "GPS:GPSImgDirection", "GPSImgDirection", "GPS GPSImgDirection",
                     "EXIF:GPSImgDirection" >>, "float"))
        i4 == PutIf(i3, "GPSSpeed", FirstDecoded(md,
                  << "GPS:GPSSpeed", "GPSSpeed", "GPS GPSSpeed", "EXIF:GPSSpeed" >>,
                  "float"))
    IN  PutIf(i4, "GPSSpeedRef", FirstDecoded(md,
                  << "GPS:GPSSpeedRef", "GPSSpeedRef", "GPS GPSSpeedRef",
                     "EXIF:GPSSpeedRef" >>, "speed_ref"))

ExifLatitudeKeys ==
    << "GPS:GPSLatitude", "GPSLatitude", "GPS GPSLatitude", "EXIF:GPSLatitude" >>
ExifLongitudeKeys ==
    << "GPS:GPSLongitude", "GPSLongitude", "GPS GPSLongitude", "EXIF:GPSLongitude" >>
ExifLatitudeRefKeys ==
    << "GPS:GPSLatitudeRef", "GPSLatitudeRef", "GPS GPSLatitudeRef",
       "EXIF:GPSLatitudeRef" >>
ExifLongitudeRefKeys ==
    << "GPS:GPSLongitudeRef", "GPSLongitudeRef", "GPS GPSLongitudeRef",
       "EXIF:GPSLongitudeRef" >>

\* the sign given to a decoded coordinate by its reference letter
ApplyLatRef(lat, lat_ref) == IF lat_ref = "N" THEN lat ELSE -lat
ApplyLonRef(lon, lon_ref) == IF lon_ref = "E" THEN lon ELSE -lon

parse_exif_gps(md) ==
    LET lat == extract_gps_coordinate(md, ExifLatitudeKeys)
        lon == extract_gps_coordinate(md, ExifLongitudeKeys)
        lat_ref == extract_gps_ref(md, ExifLatitudeRefKeys, "N")
        lon_ref == extract_gps_ref(md, ExifLongitudeRefKeys, "E")
        g1 == IF lat.ok THEN Put(Empty, "Latitude", Num(ApplyLatRef(lat.v, lat_ref)))
              ELSE Empty
        g2 == IF lon.ok THEN Put(g1, "Longitude", Num(ApplyLonRef(lon.v, lon_ref)))
              ELSE g1
        g3 == PutIf(g2, "Altitude", extract_gps_altitude(md))
    IN  extract_additional_gps_info(md, g3)

(***************************************************************************)
(* GPS resolver: tier 2 (XMP-style keys).                                  *)
(***************************************************************************)
\* one XMP altitude key: a number, or a string that float() parses; anything
\* else is passed over
DecodeXmpAltitude(v) ==
    CASE v.t = "num" -> Value(v)
      [] v.t = "numstr" -> Value(Num(v.n))
      [] OTHER -> NoValue

RECURSIVE FirstXmpAltitude(_, _)
FirstXmpAltitude(md, keys) ==
    IF keys = <<>> THEN NoValue
    ELSE LET got == IF Has(md, Head(keys)) THEN DecodeXmpAltitude(md[Head(keys)])
                    ELSE NoValue
         IN  IF got.ok THEN got ELSE FirstXmpAltitude(md, Tail(keys))

parse_xmp_gps(md) ==
    LET lat == extract_gps_coordinate(md,
                   << "XMP:GPSLatitude", "XMP:Latitude", "XMP-exif:GPSLatitude" >>)
        lon == extract_gps_coordinate(md,
                   << "XMP:GPSLongitude", "XMP:Longitude", "XMP-exif:GPSLongitude" >>)
        g1 == IF lat.ok THEN Put(Empty, "Latitude", Num(lat.v)) ELSE Empty
        g2 == IF lon.ok THEN Put(g1, "Longitude", Num(lon.v)) ELSE g1
    IN  PutIf(g2, "Altitude", FirstXmpAltitude(md,
                   << "XMP:GPSAltitude", "XMP:Altitude", "XMP-exif:GPSAltitude" >>))

(***************************************************************************)
(* GPS resolver: tier 3 (IPTC location text).                              *)
(***************************************************************************)
\* the first key of keys that is present with a truthy value
RECURSIVE FirstTruthy(_, _)
FirstTruthy(md, keys) ==
    IF keys = <<>> THEN NoValue
    ELSE IF Has(md, Head(keys)) /\ Truthy(md[Head(keys)]) THEN Value(md[Head(keys)])
    ELSE FirstTruthy(md, Tail(keys))

\* ', '.join(parts)
Joined(parts) == [t |-> "joined", parts |-> parts]

\* raised = TRUE: the join met a component that is not text (TypeError)
parse_iptc_location(md) ==
    LET sub == FirstTruthy(md, << "IPTC:Sub-location", "IPTC:Sublocation" >>)
        city == FirstTruthy(md, << "IPTC:City" >>)
        state == FirstTruthy(md, << "IPTC:Province-State", "IPTC:State", "IPTC:Province" >>)
        country == FirstTruthy(md, << "IPTC:Country" >>)
        Part(got) == IF got.ok THEN << got.v >> ELSE << >>
        location_components == Part(sub) \o Part(city) \o Part(state) \o Part(country)
        i1 == PutIf(Empty, "Sublocation", sub)
        i2 == PutIf(i1, "City", city)
        i3 == PutIf(i2, "State", state)
        i4 == PutIf(i3, "Country", country)
    IN  IF location_components = << >> THEN [raised |-> FALSE, info |-> i4]
        ELSE IF \E i \in 1..Len(location_components) : ~IsStr(location_components[i])
        THEN [raised |-> TRUE, info |-> Empty]
        ELSE [raised |-> FALSE,
              info |-> Put(i4, "LocationName", Joined(location_components))]

(***************************************************************************)
(* GPS resolver: tier 4 (generic key scan).                                *)
(***************************************************************************)
\* the keys of the model whose lower-cased name contains "gps", "location"
\* or "coordinates"
GpsLikeNames ==
    { "GPS:GPSLatitude", "GPS:GPSLongitude", "GPSLatitude", "GPSLongitude",
      "GPS:Latitude", "GPS:Longitude", "GPS GPSLatitude", "GPS GPSLongitude",
      "EXIF:GPSLatitude", "EXIF:GPSLongitude",
      "GPS:GPSLatitudeRef", "GPS:GPSLongitudeRef", "GPSLatitudeRef", "GPSLongitudeRef",
      "GPS:GPSAltitude", "GPS:GPSAltitudeRef", "GPS:GPSTimeStamp", "GPS:GPSDateStamp",
      "GPS:GPSImgDirection", "GPS:GPSSpeed", "GPS:GPSSpeedRef",
      "XMP:GPSLatitude", "XMP:GPSLongitude", "XMP-exif:GPSLatitude",
      "XMP-exif:GPSLongitude", "XMP:GPSAltitude",
      "IPTC:Sub-location", "IPTC:LocationCode", "IPTC:LocationName",
      "Location", "PNG:Coordinates", "GPSPosition", "GPSInfo", "LocationName",
      "Coordinates" }

\* the order in which a record is iterated (dict insertion order)
KeyOrder ==
    << "GPS:GPSLatitude", "GPS:GPSLatitudeRef", "GPS:GPSLongitude",
       "GPS:GPSLongitudeRef", "GPSLatitude", "GPS:Latitude", "GPS:GPSAltitude",
       "GPS:GPSAltitudeRef", "GPS:GPSTimeStamp", "GPS:GPSSpeedRef",
       "XMP:GPSLatitude", "XMP:GPSLongitude", "IPTC:City", "IPTC:Country",
       "GPSPosition", "Location", "PNG:Coordinates" >>

MaxLat == 90 * DegUnit
MaxLon == 180 * DegUnit
InRange(lat, lon) == -MaxLat <= lat /\ lat <= MaxLat /\ -MaxLon <= lon /\ lon <= MaxLon

NoPair == [ok |-> FALSE, lat |-> 0, lon |-> 0]

extract_coordinates_from_string(v) ==
    CASE v.t = "pairstr" ->
           IF InRange(v.lat, v.lon) THEN [ok |-> TRUE, lat |-> v.lat, lon |-> v.lon]
           ELSE NoPair
      [] v.t = "dmspair" ->
           LET la == v.lat.d * DegUnit + v.lat.m * MinUnit + v.lat.s * 10
               lo == v.lon.d * DegUnit + v.lon.m * MinUnit + v.lon.s * 10
               lat == IF v.lat.dir = "S" THEN -la ELSE la
               lon == IF v.lon.dir = "W" THEN -lo ELSE lo
           IN  IF InRange(lat, lon) THEN [ok |-> TRUE, lat |-> lat, lon |-> lon]
               ELSE NoPair
      [] OTHER -> NoPair

RECURSIVE GenericScan(_, _)
GenericScan(md, keys) ==
    IF keys = <<>> THEN Empty
    ELSE LET key == Head(keys)
             coords == IF Has(md, key) /\ IsStr(md[key]) /\ key \in GpsLikeNames
                       THEN extract_coordinates_from_string(md[key])
                       ELSE NoPair
         IN  IF coords.ok
             THEN Put(Put(Empty, "Latitude", Num(coords.lat)), "Longitude", Num(coords.lon))
             ELSE GenericScan(md, Tail(keys))

parse_generic_gps(md) == GenericScan(md, KeyOrder)

(***************************************************************************)
(* GPS resolver: enrichment and the resolver as a whole.                   *)
(***************************************************************************)
\* decimal_to_dms: the seconds are printed with two decimals
decimal_to_dms(coord, coord_type) ==
    LET direction == IF coord_type = "lat"
                     THEN (IF coord >= 0 THEN "N" ELSE "S")
                     ELSE (IF coord >= 0 THEN "E" ELSE "W")
        c == Abs(coord)
        degrees == c \div DegUnit
        minutes == (c % DegUnit) \div MinUnit
        seconds == c % MinUnit
    IN  DmsStr(degrees, minutes, (seconds + 5) \div 10, direction)

\* f"{lat}, {lon}" and the map URL built from the two numbers
FormattedPair(lat, lon) == [t |-> "fmtpair", lat |-> lat, lon |-> lon]
MapsUrl(lat, lon) == [t |-> "url", lat |-> lat, lon |-> lon]

\* text supplied by a geocoding service
GeoText(w) == Str(<<"g", "e", "o", ":">> \o w)

\* what a geocoding collaborator does when reverse_geocode turns to it: the
\* library is missing (or the geocoder could not be built), the call returns
\* nothing (None, an empty list), the call raises, or it answers with the
\* fields of a place
Unavailable == [kind |-> "unavailable"]
ReturnsNothing == [kind |-> "nothing"]
RaisesError == [kind |-> "raises"]
Answers(fields) == [kind |-> "answers", fields |-> fields]

\* location.raw['address'] of the online geocoder
OnlineAddresses ==
    { Empty,
      ("city" :> GeoText(<<"x">>)) @@ ("country" :> GeoText(<<"y">>)) }
\* results[0] of the offline geocoder
OfflineResults ==
    { ("name" :> GeoText(<<"x">>)) @@ ("admin1" :> Str(<<>>))
          @@ ("cc" :> GeoText(<<"z">>)) }
OnlineOutcomes ==
    { Unavailable, ReturnsNothing, RaisesError }
        \cup { Answers(address) : address \in OnlineAddresses }
OfflineOutcomes ==
    { Unavailable, ReturnsNothing, RaisesError }
        \cup { Answers(result) : result \in OfflineResults }

\* f"{latitude:.6f}": the sign and the millionths of a degree, rounded
\* (1000000 / DegUnit = 5 / 18)
KeyPart(coord) ==
    [negative |-> coord < 0,
     millionths |-> RoundHalfEven(5 * Abs(coord), 18)]
\* cache_key = f"{latitude:.6f},{longitude:.6f}"
CacheKey(latitude, longitude) == <<KeyPart(latitude), KeyPart(longitude)>>

\* the first key of keys the address holds with a truthy value, as a list
RECURSIVE FirstComponent(_, _)
FirstComponent(address, keys) ==
    IF keys = <<>> THEN <<>>
    ELSE IF Has(address, Head(keys)) /\ Truthy(address[Head(keys)])
    THEN <<address[Head(keys)]>>
    ELSE FirstComponent(address, Tail(keys))

\* location_info[name] = the component, if there is one
WithComponent(location_info, name, component) ==
    PutWhen(component # <<>>, location_info, name,
            IF component = <<>> THEN None ELSE component[1])
\* location_info['LocationName'] = ', '.join(components), if there are any
WithLocationName(location_info, components) ==
    PutWhen(components # <<>>, location_info, "LocationName",
            Str(JoinWith(<<",", " ">>,
                         [i \in DOMAIN components |-> components[i].w])))

\* reverse_geocode, online branch: location_info built from the address
OnlineLocationInfo(address) ==
    WithLocationName(
        WithComponent(WithComponent(WithComponent(WithComponent(Empty,
            "City", FirstComponent(address, <<"city", "town", "village", "hamlet">>)),
            "County", FirstComponent(address, <<"county", "district", "state_district">>)),
            "State", FirstComponent(address, <<"state", "province">>)),
            "Country", FirstComponent(address, <<"country">>)),
        FirstComponent(address, <<"city", "town", "village", "hamlet">>)
            \o FirstComponent(address, <<"county", "district", "state_district">>)
            \o FirstComponent(address, <<"state", "province">>)
            \o FirstComponent(address, <<"country">>))

\* reverse_geocode, offline branch: location_info built from results[0]
OfflineLocationInfo(result) ==
    WithLocationName(
        WithComponent(WithComponent(WithComponent(Empty,
            "City", FirstComponent(result, <<"name">>)),
            "State", FirstComponent(result, <<"admin1">>)),
            "CountryCode", FirstComponent(result, <<"cc">>)),
        FirstComponent(result, <<"name">>) \o FirstComponent(result, <<"admin1">>)
            \o FirstComponent(result, <<"cc">>))

\* the call made to a collaborator, if it is there to be called
Tried(service, outcome) ==
    IF outcome.kind = "unavailable" THEN <<>>
    ELSE <<[service |-> service, kind |-> outcome.kind]>>

\* a reverse_geocode call that found a place: the result is stored in the
\* cache and returned
Geocoded(cache, cache_key, location_info, lookups) ==
    [result |-> location_info, cache |-> Put(cache, cache_key, location_info),
     lookups |-> lookups, hit |-> FALSE]

\* (mutant) a lookup that fails is reported as a place of its own
reverse_geocode_placeholder(cache, cache_key, online, offline) ==
    IF online.kind = "answers"
    THEN Geocoded(cache, cache_key, OnlineLocationInfo(online.fields),
                  Tried("online", online))
    ELSE IF offline.kind = "answers"
    THEN Geocoded(cache, cache_key, OfflineLocationInfo(offline.fields),
                  Tried("online", online) \o Tried("offline", offline))
    ELSE [result |-> ("LocationName" :> Str(<<"?">>)), cache |-> cache,
          lookups |-> Tried("online", online) \o Tried("offline", offline),
          hit |-> FALSE]

\* reverse_geocode without the cache test
reverse_geocode_uncached(cache, cache_key, online, offline) ==
    IF online.kind = "answers"
    THEN Geocoded(cache, cache_key, OnlineLocationInfo(online.fields),
                  Tried("online", online))
    ELSE IF offline.kind = "answers"
    THEN Geocoded(cache, cache_key, OfflineLocationInfo(offline.fields),
                  Tried("online", online) \o Tried("offline", offline))
    ELSE [result |-> Empty, cache |-> cache,
          lookups |-> Tried("online", online) \o Tried("offline", offline),
          hit |-> FALSE]

\* (mutant) the cache is written but never read
reverse_geocode_always_asks(cache, latitude, longitude, online, offline) ==
    reverse_geocode_uncached(cache, CacheKey(latitude, longitude),
                             online, offline)

\* reverse_geocode(latitude, longitude) on a resolver whose cache is cache:
\* the mapping returned, the cache afterwards, the collaborators called
reverse_geocode(cache, latitude, longitude, online, offline) ==
    IF Has(cache, CacheKey(latitude, longitude))
    THEN [result |-> cache[CacheKey(latitude, longitude)], cache |-> cache,
          lookups |-> <<>>, hit |-> TRUE]
    ELSE reverse_geocode_uncached(cache, CacheKey(latitude, longitude),
                                  online, offline)

\* what reverse_geocode may return on a resolver with an empty cache
GeoOutcomes ==
    { reverse_geocode(Empty, 0, 0, online, offline).result :
          online \in OnlineOutcomes, offline \in OfflineOutcomes }

\* lines 97-120 of parse_gps_info; location_info is what reverse_geocode returned
EnrichGps(info, location_info) ==
    IF Has(info, "Latitude") /\ Has(info, "Longitude")
       /\ IsNumber(info["Latitude"]) /\ IsNumber(info["Longitude"])
    THEN LET lat == info["Latitude"].n
             lon == info["Longitude"].n
             e1 == Put(info, "Location", FormattedPair(lat, lon))
             e2 == Put(e1, "Coordinates", FormattedPair(lat, lon))
             e3 == Put(e2, "LatitudeDMS", decimal_to_dms(lat, "lat"))
             e4 == Put(e3, "LongitudeDMS", decimal_to_dms(lon, "lon"))
             e5 == Put(e4, "GoogleMapsURL", MapsUrl(lat, lon))
         IN  Update(e5, location_info)
    ELSE info

\* (mutant) a tier that decodes nothing hands over to the next tier
DetectTierFallsThrough(md) ==
    IF has_exif_gps_tags(md) /\ parse_exif_gps(md) # Empty THEN 1
    ELSE IF has_xmp_gps_tags(md) /\ parse_xmp_gps(md) # Empty THEN 2
    ELSE IF has_iptc_location_tags(md) THEN 3
    ELSE 4

\* the if / elif chain of parse_gps_info: the tier whose parser runs
DetectTier(md) ==
    IF has_exif_gps_tags(md) THEN 1
    ELSE IF has_xmp_gps_tags(md) THEN 2
    ELSE IF has_iptc_location_tags(md) THEN 3
    ELSE 4

ParseTier(k, md) ==
    CASE k = 1 -> [raised |-> FALSE, info |-> parse_exif_gps(md)]
      [] k = 2 -> [raised |-> FALSE, info |-> parse_xmp_gps(md)]
      [] k = 3 -> parse_iptc_location(md)
      [] OTHER -> [raised |-> FALSE, info |-> parse_generic_gps(md)]

\* parse_gps_info in one step (as the orchestrator calls it)
parse_gps_info(md, location_info) ==
    LET r == ParseTier(DetectTier(md), md)
    IN  IF r.raised THEN Empty ELSE EnrichGps(r.info, location_info)

\* the reverse_geocode call parse_gps_info makes, as a list: one call if
\* numeric coordinates were decoded (info is the mapping before the call),
\* none otherwise
GeocodeDecoded(info, cache, online, offline) ==
    IF Has(info, "Latitude") /\ Has(info, "Longitude")
       /\ IsNumber(info["Latitude"]) /\ IsNumber(info["Longitude"])
    THEN << [key |-> CacheKey(info["Latitude"].n, info["Longitude"].n)]
               @@ reverse_geocode(cache, info["Latitude"].n,
                                  info["Longitude"].n, online, offline) >>
    ELSE <<>>
\* location_info of parse_gps_info, and the cache after its call
LocationOf(geocalls) == IF geocalls = <<>> THEN Empty ELSE geocalls[1].result
CacheAfter(cache, geocalls) ==
    IF geocalls = <<>> THEN cache ELSE geocalls[1].cache

(***************************************************************************)
(* Records handed to the operations: every choice of at most n keys of a   *)
(* key set, each key with one of the values it can hold.                   *)
(***************************************************************************)
LatA == 40 * DegUnit + 42 * MinUnit + 46080      \* 40.7128
LonA == 74 * DegUnit + 0 * MinUnit + 21600       \* 74.0060
LatB == 12 * DegUnit
LatX == 51 * DegUnit
LonX == 7 * DegUnit
LatG == 33 * DegUnit
LonG == 66 * DegUnit

Garbage == Str(<<"?">>)

ValuesFor(k) ==
    CASE k = "GPS:GPSLatitude" ->
           { Num(LatA), DmsStr(40, 26, 4600, "S"), DmsStr(40, 26, 4600, "N"),
             List3(40, 42, 46080), Garbage }
      [] k = "GPSLatitude" -> { Num(LatB) }
      [] k = "GPS:Latitude" -> { Num(LatB) }
      [] k = "GPS:GPSLongitude" -> { Num(LonA), DmsStr(74, 0, 2160, "W") }
      [] k = "GPS:GPSLatitudeRef" ->
           { Str(<<"N">>), Str(<<"S">>), Str(<<"E">>), Bytes(<<"S">>), Garbage }
      [] k = "GPS:GPSLongitudeRef" -> { Str(<<"E">>), Str(<<"W">>), Str(<<"N">>) }
      [] k = "GPS:GPSAltitude" -> { Num(10), Frac(21, 2) }
      [] k = "GPS:GPSAltitudeRef" -> { Num(0), Num(1) }
      [] k = "GPS:GPSTimeStamp" -> { List3(10, 20, 30 * SecUnit) }
      [] k = "GPS:GPSSpeedRef" -> { Str(<<"K">>) }
      [] k = "XMP:GPSLatitude" -> { Num(LatX), Garbage }
      [] k = "XMP:GPSLongitude" -> { Num(LonX) }
      [] k = "IPTC:City" -> { Str(<<"c">>), Num(5), Str(<<>>) }
      [] k = "IPTC:Country" -> { Str(<<"f">>) }
      [] k = "Location" ->
           { PairStr(LatG, -LonG), PairStr(100 * DegUnit, LonG), Garbage }
      [] k = "PNG:Coordinates" ->
           { DmsPairStr([d |-> 33, m |-> 0, s |-> 0, dir |-> "S"],
                        [d |-> 66, m |-> 0, s |-> 0, dir |-> "W"]) }
      [] k = "Latitude" -> { None, Num(0), Num(LatA) }
      [] k = "GPSLongitude" -> { None, Num(LonA) }
      [] k = "SerialNumber" -> { None, Str(<<>>), Str(<<"1">>) }
      [] k = "LensSerialNumber" -> { Str(<<"2">>) }
      [] k = "Artist" -> { Str(<<>>), Str(<<"a">>) }
      [] k = "ImageUniqueID" -> { Str(<<>>), Str(<<"u">>) }
      [] k = "DateTimeOriginal" -> { Str(<<>>), Str(<<"d">>) }
      [] k = "Software" -> { Str(<<>>), Str(<<"s">>) }
      [] k = "ImageWidth" -> { Num(4) }
      [] k = "DeviceType" -> { None, Str(<<"S", "c", "a", "n", "n", "e", "r">>) }
      [] OTHER -> { Garbage }

RECURSIVE RecordsOver(_)
RecordsOver(S) ==
    IF S = {} THEN { Empty }
    ELSE LET k == CHOOSE x \in S : TRUE
         IN  { Put(f, k, v) : f \in RecordsOver(S \ {k}), v \in ValuesFor(k) }

Records(keys, n) ==
    UNION { RecordsOver(S) : S \in { T \in SUBSET keys : Cardinality(T) <= n } }

GpsKeys ==
    { "GPS:GPSLatitude", "GPSLatitude", "GPS:Latitude", "GPS:GPSLongitude",
      "GPS:GPSLatitudeRef", "GPS:GPSLongitudeRef", "GPS:GPSAltitude",
      "GPS:GPSAltitudeRef", "XMP:GPSLatitude", "XMP:GPSLongitude",
      "IPTC:City", "IPTC:Country", "Location", "PNG:Coordinates" }

(***************************************************************************)
(* The parts of the state an operation does not use stay as constructed.   *)
(***************************************************************************)
NoAssessment ==
    [PrivacyRisk |-> "Low", SensitiveDataPresent |-> FALSE, Recommendations |-> <<>>]

IdleGps == tier = 0 /\ tiers_run = {} /\ gps_info = Empty
IdlePrivacy ==
    device_type = None /\ assessment = NoAssessment /\ sensitive_fields = <<>>
IdleDevice == make = None /\ model = None
IdleLookup ==
    /\ device_db = Empty /\ levenshtein = FALSE
    /\ lookup_tier = 0 /\ db_info = Empty
IdleDecoders == tags = Empty /\ raised = ""
IdleExtract ==
    sources = Empty /\ device_profile = Empty /\ calls = <<>>
    /\ key_order = <<>>
\* no thread is in update_device_database
NoUpdater == [pc |-> "up_none"]
IdleGeo == geocoding_cache = Empty /\ geo_log = <<>>
IdleUpdate == updater = NoUpdater
\* no call is being made and the instances hold nothing
NoHeap ==
    [objects |-> <<>>, locals |-> <<>>, cache |-> <<>>, op |-> "", hit |-> FALSE,
     raised |-> ""]
IdleFrame == heap = NoHeap
\* the main window as constructed: no file, no results, no worker
IdleGui ==
    /\ processing = FALSE
    /\ current_file = None /\ current_metadata = None /\ result_view = None
    /\ threads = <<>> /\ after_queue = <<>>
IdleOutsideGps ==
    IdlePrivacy /\ IdleDevice /\ IdleLookup /\ IdleDecoders /\ IdleExtract /\ IdleGeo /\ IdleUpdate /\ IdleGui /\ IdleFrame
IdleOutsidePrivacy ==
    IdleGps /\ IdleDevice /\ IdleLookup /\ IdleDecoders /\ IdleExtract /\ IdleGeo /\ IdleUpdate /\ IdleGui /\ IdleFrame
IdleOutsideDeviceType ==
    /\ IdleGps /\ assessment = NoAssessment /\ sensitive_fields = <<>>
    /\ IdleLookup /\ IdleDecoders /\ IdleExtract /\ IdleGeo /\ IdleUpdate /\ IdleGui /\ IdleFrame
IdleOutsideDecoders ==
    IdleGps /\ IdlePrivacy /\ IdleDevice /\ IdleLookup /\ IdleExtract /\ IdleGeo /\ IdleUpdate /\ IdleGui /\ IdleFrame

(***************************************************************************)
(* SpecGps: one call of GPSParser.parse_gps_info, statement by statement.  *)
(***************************************************************************)
InitGps ==
    /\ pc = "gps_detect"
    /\ metadata \in Records(GpsKeys, MaxGpsKeys)
    /\ tier = 0
    /\ tiers_run = {}
    /\ gps_info = Empty
    /\ IdleOutsideGps

\* lines 82-95: the chain picks one branch
GpsDetect ==
    /\ pc = "gps_detect"
    /\ tier' = DetectTier(metadata)
    /\ pc' = "gps_parse"
    /\ UNCHANGED <<metadata, tiers_run, gps_info, outsideGps>>

\* the branch taken runs its parser; an exception ends the call with {}
GpsRunTier(k) ==
    /\ pc = "gps_parse"
    /\ tier = k
    /\ LET r == ParseTier(k, metadata)
       IN  /\ gps_info' = IF r.raised THEN Empty ELSE r.info
           /\ pc' = IF r.raised THEN "gps_done" ELSE "gps_enrich"
    /\ tiers_run' = tiers_run \cup {k}
    /\ UNCHANGED <<metadata, tier, outsideGps>>

GpsParseExif == GpsRunTier(1)
GpsParseXmp == GpsRunTier(2)
GpsParseIptc == GpsRunTier(3)
GpsParseGeneric == GpsRunTier(4)

\* lines 97-122
GpsEnrich ==
    /\ pc = "gps_enrich"
    /\ \E location_info \in GeoOutcomes :
          gps_info' = EnrichGps(gps_info, location_info)
    /\ pc' = "gps_done"
    /\ UNCHANGED <<metadata, tier, tiers_run, outsideGps>>

NextGps ==
    \/ GpsDetect
    \/ GpsParseExif
    \/ GpsParseXmp
    \/ GpsParseIptc
    \/ GpsParseGeneric
    \/ GpsEnrich

SpecGps == InitGps /\ [][NextGps]_vars

(***************************************************************************)
(* Privacy assessment (DeviceIdentifier._assess_privacy_implications).     *)
(* st is the pair of the locals assessment and sensitive_fields.           *)
(***************************************************************************)
\* "key in metadata and metadata[key] is not None" for some key of keys
RECURSIVE AnyNotNone(_, _)
AnyNotNone(md, keys) ==
    IF keys = <<>> THEN FALSE
    ELSE (Has(md, Head(keys)) /\ md[Head(keys)] # None) \/ AnyNotNone(md, Tail(keys))

\* "key in metadata and metadata[key]" for some key of keys
AnyTruthy(md, keys) == FirstTruthy(md, keys).ok

PrivacyGpsKeys ==
    << "GPS:GPSLatitude", "GPS:GPSLongitude", "GPSLatitude", "GPSLongitude",
       "Latitude", "Longitude" >>
PrivacySerialKeys ==
    << "SerialNumber", "CameraSerialNumber", "BodySerialNumber", "LensSerialNumber" >>
PrivacyOwnerKeys ==
    << "OwnerName", "CameraOwnerName", "Artist", "Author", "Creator", "By-line" >>
PrivacyTimestampKeys == << "DateTimeOriginal", "CreateDate", "ModifyDate", "DateCreated" >>
PrivacySoftwareKeys == << "Software", "ProcessingSoftware", "CreatorTool" >>
\* the keys of the model whose name contains DeviceID, UniqueID, IMEI or UUID
DeviceIdNames == { "DeviceID", "ImageUniqueID", "XMP:IMEI", "UUID" }

StartAssessment ==
    [assessment |-> NoAssessment, sensitive_fields |-> <<>>]

Noted(st, label, recommendation) ==
    [assessment |-> [st.assessment EXCEPT
                        !.Recommendations = Append(@, recommendation)],
     sensitive_fields |-> Append(st.sensitive_fields, label)]

\* lines 1306-1318
CheckGps(md, st) ==
    IF AnyNotNone(md, PrivacyGpsKeys)
    THEN LET n == Noted(st, "GPS Location", "Remove GPS data to protect location privacy")
         IN  [n EXCEPT !.assessment.SensitiveDataPresent = TRUE,
                       !.assessment.PrivacyRisk = "High"]
    ELSE st

\* (mutant) the level is set to Medium without looking at the level reached
RaiseToMediumUnguarded(st) ==
    [st EXCEPT !.assessment.SensitiveDataPresent = TRUE,
               !.assessment.PrivacyRisk = "Medium"]

\* "SensitiveDataPresent = True; if PrivacyRisk != 'High': PrivacyRisk = 'Medium'"
RaiseToMedium(st) ==
    [st EXCEPT !.assessment.SensitiveDataPresent = TRUE,
               !.assessment.PrivacyRisk = IF @ # "High" THEN "Medium" ELSE @]

\* lines 1320-1333
CheckSerial(md, st) ==
    IF AnyTruthy(md, PrivacySerialKeys)
    THEN RaiseToMedium(Noted(st, "Serial Number",
                             "Remove serial numbers to prevent device tracking"))
    ELSE st

\* lines 1335-1348
CheckOwner(md, st) ==
    IF AnyTruthy(md, PrivacyOwnerKeys)
    THEN RaiseToMedium(Noted(st, "Owner/Author Information",
                             "Remove owner/author information for anonymity"))
    ELSE st

\* lines 1350-1364
CheckDeviceId(md, dtype, st) ==
    IF dtype \in {Smartphone, Tablet}
       /\ \E key \in DOMAIN md : key \in DeviceIdNames /\ Truthy(md[key])
    THEN RaiseToMedium(Noted(st, "Device Identifier", "Remove unique device identifiers"))
    ELSE st

\* "if not SensitiveDataPresent: SensitiveDataPresent = True; PrivacyRisk = 'Low'"
NoteLowRisk(st) ==
    IF ~st.assessment.SensitiveDataPresent
    THEN [st EXCEPT !.assessment.SensitiveDataPresent = TRUE,
                    !.assessment.PrivacyRisk = "Low"]
    ELSE st

\* (mutant) a timestamp sets the level to Low whatever was found before
CheckTimestampResetsRisk(md, st) ==
    IF AnyTruthy(md, PrivacyTimestampKeys)
    THEN LET n == Noted(st, "Timestamp",
                 "Consider removing timestamps if time information is sensitive")
         IN  [n EXCEPT !.assessment.SensitiveDataPresent = TRUE,
                       !.assessment.PrivacyRisk = "Low"]
    ELSE st

\* lines 1366-1380
CheckTimestamp(md, st) ==
    IF AnyTruthy(md, PrivacyTimestampKeys)
    THEN NoteLowRisk(Noted(st, "Timestamp",
             "Consider removing timestamps if time information is sensitive"))
    ELSE st

\* lines 1382-1396
CheckSoftware(md, st) ==
    IF AnyTruthy(md, PrivacySoftwareKeys)
    THEN NoteLowRisk(Noted(st, "Software Information",
             "Consider removing software information to hide workflow details"))
    ELSE st

\* lines 1398-1405: the mapping returned
FinishAssessment(st) ==
    IF st.assessment.SensitiveDataPresent
    THEN [PrivacyRisk |-> st.assessment.PrivacyRisk,
          SensitiveDataPresent |-> TRUE,
          Recommendations |-> Append(st.assessment.Recommendations,
              "Use metadata cleaning tools before sharing images publicly"),
          SensitiveFields |-> st.sensitive_fields]
    ELSE [st.assessment EXCEPT
             !.Recommendations = Append(@, "No sensitive metadata detected")]

assess_privacy_implications(md, dtype) ==
    FinishAssessment(
        CheckSoftware(md, CheckTimestamp(md, CheckDeviceId(md, dtype,
            CheckOwner(md, CheckSerial(md, CheckGps(md, StartAssessment)))))))

(***************************************************************************)
(* SpecPrivacy: one pass of _assess_privacy_implications, check by check.  *)
(***************************************************************************)
PrivacyKeys ==
    { "Latitude", "GPSLongitude", "SerialNumber", "LensSerialNumber", "Artist",
      "ImageUniqueID", "DateTimeOriginal", "Software", "ImageWidth" }

DeviceTypes == { Smartphone, Tablet, Camera, None }

InitPrivacy ==
    /\ pc = "pa_gps"
    /\ metadata \in Records(PrivacyKeys, MaxPrivacyKeys)
    /\ device_type \in DeviceTypes
    /\ assessment = NoAssessment
    /\ sensitive_fields = <<>>
    /\ IdleOutsidePrivacy

PrivacyState == [assessment |-> assessment, sensitive_fields |-> sensitive_fields]

PrivacyStep(from, to, st) ==
    /\ pc = from
    /\ assessment' = st.assessment
    /\ sensitive_fields' = st.sensitive_fields
    /\ pc' = to
    /\ UNCHANGED <<metadata, device_type, outsidePrivacy>>

PaCheckGps == PrivacyStep("pa_gps", "pa_serial", CheckGps(metadata, PrivacyState))
PaCheckSerial == PrivacyStep("pa_serial", "pa_owner", CheckSerial(metadata, PrivacyState))
PaCheckOwner == PrivacyStep("pa_owner", "pa_device_id", CheckOwner(metadata, PrivacyState))
PaCheckDeviceId ==
    PrivacyStep("pa_device_id", "pa_timestamp",
                CheckDeviceId(metadata, device_type, PrivacyState))
PaCheckTimestamp ==
    PrivacyStep("pa_timestamp", "pa_software", CheckTimestamp(metadata, PrivacyState))
PaCheckSoftware ==
    PrivacyStep("pa_software", "pa_final", CheckSoftware(metadata, PrivacyState))
PaFinish ==
    /\ pc = "pa_final"
    /\ assessment' = FinishAssessment(PrivacyState)
    /\ pc' = "pa_done"
    /\ UNCHANGED <<metadata, device_type, sensitive_fields, outsidePrivacy>>

NextPrivacy ==
    \/ PaCheckGps
    \/ PaCheckSerial
    \/ PaCheckOwner
    \/ PaCheckDeviceId
    \/ PaCheckTimestamp
    \/ PaCheckSoftware
    \/ PaFinish

SpecPrivacy == InitPrivacy /\ [][NextPrivacy]_vars

(***************************************************************************)
(* Claims about the GPS resolver.                                          *)
(***************************************************************************)
SetOf(seq) == { seq[i] : i \in 1..Len(seq) }

\* the first tier that has a matching key in the record; tier 4 scans every key
FirstTierWithKeys(md) ==
    IF SetOf(ExifGpsTags) \cap DOMAIN md # {} THEN 1
    ELSE IF SetOf(XmpGpsTags) \cap DOMAIN md # {} THEN 2
    ELSE IF SetOf(IptcLocationTags) \cap DOMAIN md # {} THEN 3
    ELSE 4

\* what the record holds under the keys of tiers 2, 3 and 4: coordinate
\* magnitudes (tiers 2 and 4) and location texts (tier 3)
XmpMagnitudes(md) ==
    { Abs(DecodeCoordinate(md[k]).v) :
        k \in { x \in SetOf(XmpGpsTags) \cap DOMAIN md : DecodeCoordinate(md[x]).ok } }
GenericMagnitudes(md) ==
    UNION { { Abs(extract_coordinates_from_string(md[k]).lat),
              Abs(extract_coordinates_from_string(md[k]).lon) } :
            k \in { x \in (DOMAIN md) \ (SetOf(ExifGpsTags) \cup SetOf(XmpGpsTags)
                                        \cup SetOf(IptcLocationTags)) :
                    extract_coordinates_from_string(md[x]).ok } }
IptcTexts(md) == { md[k] : k \in SetOf(IptcLocationTags) \cap DOMAIN md }

\* what a result holds: coordinate magnitudes and location texts
ResultMagnitudes(info) ==
    { Abs(info[k].n) : k \in {"Latitude", "Longitude"} \cap DOMAIN info }
ResultTexts(info) ==
    { info[k] : k \in {"Sublocation", "City", "State", "Country"} \cap DOMAIN info }

LaterTierMagnitudes(k, md) ==
    CASE k = 1 -> XmpMagnitudes(md) \cup GenericMagnitudes(md)
      [] k \in {2, 3} -> GenericMagnitudes(md)
      [] OTHER -> {}
LaterTierTexts(k, md) == IF k \in {1, 2} THEN IptcTexts(md) ELSE {}

\* C2: the tiers are tried in the order 1, 2, 3, 4 and exactly one tier's
\* parser runs, the first tier with a matching key; nothing held under the
\* keys of a later tier appears in the result, also when the chosen tier
\* decodes nothing.
C2_OneTierInOrder ==
    /\ Cardinality(tiers_run) <= 1
    /\ pc \in {"gps_enrich", "gps_done"} =>
          /\ tiers_run = { FirstTierWithKeys(metadata) }
          /\ ResultMagnitudes(gps_info)
                \cap LaterTierMagnitudes(FirstTierWithKeys(metadata), metadata) = {}
          /\ ResultTexts(gps_info)
                \cap LaterTierTexts(FirstTierWithKeys(metadata), metadata) = {}

\* tier 1 matched and decoded nothing while tier 2 held a decodable coordinate
C2_Witness ==
    /\ pc = "gps_done"
    /\ tiers_run = {1}
    /\ gps_info = Empty
    /\ XmpMagnitudes(metadata) # {}

\* C7 (as claimed): in tier 1 the Latitude is negative exactly when the
\* latitude reference is South, and the Longitude is negative exactly when
\* the longitude reference is West; with N / E or no reference it is not
\* negative.  The coordinates of the records checked are all non-zero.
C7_SignFollowsReference ==
    (pc = "gps_done" /\ tiers_run = {1}) =>
        /\ Has(gps_info, "Latitude") =>
              ((gps_info["Latitude"].n < 0)
                  <=> (extract_gps_ref(metadata, ExifLatitudeRefKeys, "N") = "S"))
        /\ Has(gps_info, "Longitude") =>
              ((gps_info["Longitude"].n < 0)
                  <=> (extract_gps_ref(metadata, ExifLongitudeRefKeys, "E") = "W"))

(***************************************************************************)
(* Claims about the privacy assessment.                                    *)
(***************************************************************************)
RiskRank(r) == CASE r = "Low" -> 0 [] r = "Medium" -> 1 [] r = "High" -> 2

\* the six category signals, read off the record
GpsDetected(md) == \E k \in SetOf(PrivacyGpsKeys) \cap DOMAIN md : md[k].t # "none"
SerialDetected(md) == \E k \in SetOf(PrivacySerialKeys) \cap DOMAIN md : Truthy(md[k])
OwnerDetected(md) == \E k \in SetOf(PrivacyOwnerKeys) \cap DOMAIN md : Truthy(md[k])
DeviceIdDetected(md, dtype) ==
    /\ dtype \in {Smartphone, Tablet}
    /\ \E k \in DeviceIdNames \cap DOMAIN md : Truthy(md[k])
TimestampDetected(md) ==
    \E k \in SetOf(PrivacyTimestampKeys) \cap DOMAIN md : Truthy(md[k])
SoftwareDetected(md) ==
    \E k \in SetOf(PrivacySoftwareKeys) \cap DOMAIN md : Truthy(md[k])

\* C3: within one pass the risk level never decreases in the order
\* Low < Medium < High from one check to the next, so a record with both GPS
\* and serial-number keys ends with High, never Medium.
C3_RiskNeverDecreases ==
    /\ [][RiskRank(assessment'.PrivacyRisk) >= RiskRank(assessment.PrivacyRisk)]_vars
    /\ []((pc = "pa_done" /\ GpsDetected(metadata) /\ SerialDetected(metadata))
            => assessment.PrivacyRisk = "High")

\* a pass over a record with GPS and serial keys and a later low-risk signal
C3_Witness ==
    /\ pc = "pa_done"
    /\ GpsDetected(metadata)
    /\ SerialDetected(metadata)
    /\ TimestampDetected(metadata)
    /\ assessment.PrivacyRisk = "High"

\* C4: the final assessment is High exactly when a GPS key is detected,
\* Medium exactly when no GPS key but a serial, owner or (smartphone / tablet
\* only) device-identifier key is detected, Low otherwise, and
\* SensitiveDataPresent is true exactly when one of the six categories is
\* detected.
C4_FinalAssessment ==
    pc = "pa_done" =>
        LET medium == \/ SerialDetected(metadata)
                      \/ OwnerDetected(metadata)
                      \/ DeviceIdDetected(metadata, device_type)
            low == TimestampDetected(metadata) \/ SoftwareDetected(metadata)
        IN  /\ (assessment.PrivacyRisk = "High") <=> GpsDetected(metadata)
            /\ (assessment.PrivacyRisk = "Medium") <=> (~GpsDetected(metadata) /\ medium)
            /\ (assessment.PrivacyRisk = "Low") <=> (~GpsDetected(metadata) /\ ~medium)
            /\ assessment.SensitiveDataPresent
                   <=> (GpsDetected(metadata) \/ medium \/ low)

\* a smartphone record without GPS whose only medium signal is a device identifier
C4_Witness ==
    /\ pc = "pa_done"
    /\ device_type = Smartphone
    /\ ~GpsDetected(metadata)
    /\ ~SerialDetected(metadata)
    /\ ~OwnerDetected(metadata)
    /\ DeviceIdDetected(metadata, device_type)
    /\ SoftwareDetected(metadata)
    /\ assessment.PrivacyRisk = "Medium"

(***************************************************************************)
(* Device identifier: the database lookup.                                 *)
(* A similarity is a fraction [n, d] with d > 0, compared exactly.         *)
(***************************************************************************)
Ratio(n, d) == [n |-> n, d |-> d]
\* a > b for fractions
Greater(a, b) == a.n * b.d > b.n * a.d
Min2(a, b) == IF a <= b THEN a ELSE b
Max2(a, b) == IF a >= b THEN a ELSE b

\* one row of the edit distance table: prev is the row above, c the
\* character of the first string, acc the part of the row built so far
RECURSIVE DistanceRow(_, _, _, _)
DistanceRow(prev, c, t, acc) ==
    IF Len(acc) = Len(t) + 1 THEN acc
    ELSE LET j == Len(acc)
             cost == IF t[j] = c THEN 0 ELSE 1
             cell == Min2(Min2(prev[j + 1] + 1, acc[j] + 1), prev[j] + cost)
         IN  DistanceRow(prev, c, t, Append(acc, cell))

RECURSIVE DistanceRows(_, _, _)
DistanceRows(s1, s2, prev) ==
    IF s1 = <<>> THEN prev[Len(s2) + 1]
    ELSE DistanceRows(Tail(s1), s2,
                      DistanceRow(prev, Head(s1), s2, <<prev[1] + 1>>))

\* Levenshtein.distance
distance(s1, s2) == DistanceRows(s1, s2, [j \in 1..(Len(s2) + 1) |-> j - 1])

\* sum(c1 == c2 for c1, c2 in zip(s1, s2))
PositionMatches(s1, s2) ==
    Cardinality({ i \in 1..Min2(Len(s1), Len(s2)) : s1[i] = s2[i] })

\* _string_similarity; lev tells whether the Levenshtein package
\* can be imported
string_similarity(a1, a2, lev) ==
    IF a1 = <<>> \/ a2 = <<>> THEN Ratio(0, 1)
    ELSE LET s1 == Lower(a1)
             s2 == Lower(a2)
             max_len == Max2(Len(s1), Len(s2))
         IN  IF Contains(s1, s2) \/ Contains(s2, s1) THEN Ratio(9, 10)
             ELSE IF lev
                  THEN Ratio(max_len - distance(s1, s2), max_len)
                  ELSE Ratio(PositionMatches(s1, s2), max_len)

\* device_info.get(field, '').lower()
GetLower(device_info, field) ==
    IF Has(device_info, field) THEN Lower(device_info[field].w) ELSE <<>>

field_mapping ==
    [ make |-> "Manufacturer", model |-> "FullModel",
      release_date |-> "ReleaseDate", sensor_type |-> "SensorType",
      sensor_size |-> "SensorSize", megapixels |-> "Megapixels",
      max_resolution |-> "MaxResolution", lens_mount |-> "LensMount",
      screen_size |-> "ScreenSize", os |-> "OperatingSystem",
      cpu |-> "Processor", storage |-> "Storage", battery |-> "Battery",
      weight |-> "Weight", dimensions |-> "Dimensions", price |-> "Price",
      url |-> "ProductURL" ]

\* _format_db_device_info
format_db_device_info(device_info) ==
    LET kept == { f \in DOMAIN field_mapping :
                      Has(device_info, f) /\ Truthy(device_info[f]) }
    IN  [ k \in { field_mapping[f] : f \in kept } |->
              device_info[CHOOSE f \in kept : field_mapping[f] = k] ]

\* the category searched for a device type
DbCategory(dtype) ==
    IF dtype = Smartphone \/ dtype = Tablet THEN "phones" ELSE "cameras"

\* the early returns of _lookup_device_in_database
LookupPossible(mk, mdl, dtype, db) ==
    /\ Truthy(mk) /\ Truthy(mdl) /\ db # Empty
    /\ Has(db, DbCategory(dtype))

NoMatch == 0

\* an entry of the database that is a mapping (a JSON object)
IsMappingEntry(entry) == ~("t" \in DOMAIN entry)
\* the first loop reaches an entry that is not a mapping before it finds an
\* exact match: device_info.get raises AttributeError
RECURSIVE ExactLoopRaises(_, _, _, _)
ExactLoopRaises(entries, i, make_lower, model_lower) ==
    IF i > Len(entries) THEN FALSE
    ELSE IF ~IsMappingEntry(entries[i]) THEN TRUE
    ELSE IF /\ GetLower(entries[i], "make") = make_lower
            /\ GetLower(entries[i], "model") = model_lower
         THEN FALSE
         ELSE ExactLoopRaises(entries, i + 1, make_lower, model_lower)
\* _lookup_device_in_database raises
lookup_raises(mk, mdl, dtype, db) ==
    /\ LookupPossible(mk, mdl, dtype, db)
    /\ ExactLoopRaises(db[DbCategory(dtype)], 1, Lower(mk.w), Lower(mdl.w))

\* first loop: the position of the first entry with the same make and model
RECURSIVE FirstExact(_, _, _, _)
FirstExact(entries, i, make_lower, model_lower) ==
    IF i > Len(entries) THEN NoMatch
    ELSE IF /\ GetLower(entries[i], "make") = make_lower
            /\ GetLower(entries[i], "model") = model_lower
         THEN i
         ELSE FirstExact(entries, i + 1, make_lower, model_lower)

\* the test of the second loop without the comparison of the makes
FuzzyMatchesAnyMake(device_info, make_lower, model_lower, lev) ==
    LET db_model == GetLower(device_info, "model")
    IN  \/ Contains(model_lower, db_model)
        \/ Contains(db_model, model_lower)
        \/ Greater(string_similarity(db_model, model_lower, lev), Ratio(8, 10))

\* the test of the second loop
FuzzyMatches(device_info, make_lower, model_lower, lev) ==
    LET db_make == GetLower(device_info, "make")
        db_model == GetLower(device_info, "model")
    IN  /\ db_make = make_lower
        /\ \/ Contains(model_lower, db_model)
           \/ Contains(db_model, model_lower)
           \/ Greater(string_similarity(db_model, model_lower, lev),
                      Ratio(8, 10))

\* second loop: the position of the first entry that passes the test
RECURSIVE FirstFuzzy(_, _, _, _, _)
FirstFuzzy(entries, i, make_lower, model_lower, lev) ==
    IF i > Len(entries) THEN NoMatch
    ELSE IF FuzzyMatches(entries[i], make_lower, model_lower, lev)
         THEN i
         ELSE FirstFuzzy(entries, i + 1, make_lower, model_lower, lev)

\* (make_score * 0.4) + (model_score * 0.6)
CombinedScore(device_info, make_lower, model_lower, lev) ==
    LET make_score ==
            string_similarity(GetLower(device_info, "make"), make_lower,
                              lev)
        model_score ==
            string_similarity(GetLower(device_info, "model"), model_lower,
                              lev)
    IN  Ratio(4 * make_score.n * model_score.d
                  + 6 * model_score.n * make_score.d,
              10 * make_score.d * model_score.d)

\* third loop: best_match (a position) after the entries from position i on
RECURSIVE BestMatch(_, _, _, _, _, _, _)
BestMatch(entries, i, make_lower, model_lower, lev, best_match, best_score) ==
    IF i > Len(entries) THEN best_match
    ELSE LET combined_score ==
                 CombinedScore(entries[i], make_lower, model_lower,
                               lev)
         IN  IF /\ Greater(combined_score, best_score)
                /\ Greater(combined_score, Ratio(7, 10))
             THEN BestMatch(entries, i + 1, make_lower, model_lower,
                            lev, i, combined_score)
             ELSE BestMatch(entries, i + 1, make_lower, model_lower,
                            lev, best_match, best_score)

(***************************************************************************)
(* Decoders: the conversion of the values the EXIF libraries hand over.    *)
(***************************************************************************)
\* an exifread IfdTag: a field type and a list of values
IfdTag(field_type, values) ==
    [t |-> "ifdtag", field_type |-> field_type, values |-> values]
\* a tuple and a list of values
PyTuple(items) == [t |-> "tuple", items |-> items]
PyList(items) == [t |-> "list", items |-> items]
\* a dict value: a nested record
PyDict(items) == [t |-> "dict", items |-> items]
\* a byte string that is not valid UTF-8
BadBytes == [t |-> "badbytes"]
IsInt(v) == v.t = "num"
AllInts(items) == \A i \in DOMAIN items : IsInt(items[i])

\* the outcome of converting one value: an exception, nothing stored, or v
Raises(e) == [raised |-> e, keep |-> FALSE, v |-> None]
Skipped == [raised |-> "", keep |-> FALSE, v |-> None]
Stored(v) == [raised |-> "", keep |-> TRUE, v |-> v]

\* float(numerator) / denominator
FloatDivision(n, d) ==
    IF d = 0 THEN Raises("ZeroDivisionError") ELSE Stored(Quotient(n, d))

IsBlank(c) == c \in {" ", "\t", "\n"}
\* str.strip(): without the blanks at both ends
RECURSIVE StripLeft(_)
StripLeft(w) ==
    IF w # <<>> /\ IsBlank(Head(w)) THEN StripLeft(Tail(w)) ELSE w
RECURSIVE StripRight(_)
StripRight(w) ==
    IF w # <<>> /\ IsBlank(w[Len(w)])
    THEN StripRight(SubSeq(w, 1, Len(w) - 1)) ELSE w
Strip(w) == StripRight(StripLeft(w))
\* the null byte (one character of a text)
Nul == "NUL"
\* str.strip('\x00'): without the null bytes at both ends
RECURSIVE StripNul(_)
StripNul(w) ==
    IF w # <<>> /\ Head(w) = Nul THEN StripNul(Tail(w))
    ELSE IF w # <<>> /\ w[Len(w)] = Nul
    THEN StripNul(SubSeq(w, 1, Len(w) - 1))
    ELSE w

Digits == << "0", "1", "2", "3", "4", "5", "6", "7", "8", "9" >>
\* str(n) of an integer
RECURSIVE IntText(_)
IntText(n) ==
    IF n < 0 THEN <<"-">> \o IntText(-n)
    ELSE IF n < 10 THEN << Digits[n + 1] >>
    ELSE IntText(n \div 10) \o << Digits[(n % 10) + 1] >>
\* '.'.join(str(x) for x in value)
RECURSIVE DottedText(_)
DottedText(items) ==
    IF Len(items) = 1 THEN IntText(items[1].n)
    ELSE IntText(items[1].n) \o <<".">> \o DottedText(Tail(items))

\* the value _process_exifread_tags stores for one IfdTag
ExifreadValue(value) ==
    CASE value.field_type = 2 ->
             IF Strip(value.values) # <<>>
             THEN Stored(Str(Strip(value.values))) ELSE Skipped
      [] value.field_type \in {5, 10} ->
             IF Len(value.values) = 1
             THEN LET rational == value.values[1]
                  IN  IF rational.d = 1 THEN Stored(Num(rational.n))
                      ELSE FloatDivision(rational.n, rational.d)
             ELSE Stored(PyList([i \in DOMAIN value.values |->
                      IF value.values[i].d # 0
                      THEN Quotient(value.values[i].n, value.values[i].d)
                      ELSE Num(0)]))
      [] value.field_type = 7 ->
             IF Len(value.values) < 100
             THEN Stored(PyList(value.values)) ELSE Skipped
      [] OTHER -> Stored(PyList(value.values))

\* "thumbnail" in tag.lower(), for the tag names of the model
ExifreadThumbnailTags == { "Thumbnail XResolution", "JPEGThumbnail" }
\* the tag name stored: names led by EXIF, Image, GPS or Interoperability
\* are kept, in other names the blanks become colons
ExifreadTagName(tag) ==
    CASE tag = "MakerNote LensInfo" -> "MakerNote:LensInfo"
      [] OTHER -> tag

\* the mapping built from the converted values, or the first exception
Collected(keys, Outcome(_), Name(_)) ==
    IF \E k \in keys : Outcome(k).raised # ""
    THEN [raised |-> (CHOOSE e \in { Outcome(k).raised : k \in keys } : e # ""),
          metadata |-> Empty]
    ELSE LET kept == { k \in keys : Outcome(k).keep }
         IN  [raised |-> "",
              metadata |-> [n \in { Name(k) : k \in kept } |->
                               Outcome(CHOOSE k \in kept : Name(k) = n).v]]

\* _process_exifread_tags
process_exifread_tags(raw) ==
    LET Outcome(tag) == ExifreadValue(raw[tag])
    IN  Collected(DOMAIN raw \ ExifreadThumbnailTags, Outcome, ExifreadTagName)

\* ExifTags.TAGS.get(tag_id, ...), for the tag ids of the model
PilTagName(tag_id) ==
    CASE tag_id = 33437 -> "FNumber"
      [] tag_id = 33434 -> "ExposureTime"
      [] tag_id = 513 -> "JpegIFOffset"
      [] OTHER -> "Unknown Tag"

\* bytes.decode('utf-8').strip('\x00').strip(), stored when not empty
DecodedText(value) ==
    IF Strip(StripNul(value.w)) # <<>>
    THEN Stored(Str(Strip(StripNul(value.w)))) ELSE Skipped

\* a pair (numerator, denominator) of integers
RationalPair(value) ==
    IF value.items[2].n = 0 THEN Stored(Num(0))
    ELSE IF value.items[2].n = 1 THEN Stored(value.items[1])
    ELSE FloatDivision(value.items[1].n, value.items[2].n)

\* the value _process_pil_exif stores for one value
PilValue(value) ==
    IF value.t = "bytes" THEN DecodedText(value)
    ELSE IF value.t = "tuple" /\ Len(value.items) = 1
         THEN Stored(value.items[1])
    ELSE IF value.t = "tuple" /\ AllInts(value.items)
         THEN Stored(Str(DottedText(value.items)))
    ELSE IF value.t = "tuple" /\ Len(value.items) = 2 /\ AllInts(value.items)
         THEN RationalPair(value)
    ELSE Stored(value)

\* _process_pil_exif
process_pil_exif(exif) ==
    LET Outcome(tag_id) == PilValue(exif[tag_id])
    IN  Collected(DOMAIN exif, Outcome, PilTagName)

\* the value _process_piexif_data stores for one value
PiexifValue(value) ==
    IF value.t = "bytes" THEN DecodedText(value)
    ELSE IF value.t = "tuple" /\ Len(value.items) = 2 /\ AllInts(value.items)
         THEN RationalPair(value)
    ELSE IF /\ value.t = "list"
            /\ \A i \in DOMAIN value.items :
                   value.items[i].t = "tuple" /\ Len(value.items[i].items) = 2
         THEN Stored(PyList([i \in DOMAIN value.items |->
                  LET x == value.items[i].items
                  IN  IF x[2].n = 0 THEN Num(0)
                      ELSE IF x[2].n = 1 THEN x[1]
                      ELSE Quotient(x[1].n, x[2].n)]))
    ELSE Stored(value)

\* f"{prefix}:{tag_name}", for the directories and tag ids of the model
PiexifTagName(entry) ==
    CASE entry = <<"Exif", 33437>> -> "EXIF:FNumber"
      [] entry = <<"Exif", 33434>> -> "EXIF:ExposureTime"
      [] entry = <<"GPS", 6>> -> "GPS:GPSAltitude"
      [] entry = <<"0th", 282>> -> "Image:XResolution"
      [] OTHER -> "Unknown Tag"

\* _process_piexif_data
process_piexif_data(exif_dict) ==
    LET entries == { <<ifd_name, tag_id>> \in
                        UNION { {n} \X DOMAIN exif_dict[n] :
                                    n \in DOMAIN exif_dict \ {"thumbnail"} } :
                        TRUE }
        Outcome(entry) == PiexifValue(exif_dict[entry[1]][entry[2]])
    IN  Collected(entries, Outcome, PiexifTagName)

\* a datetime object: a day and a time of day
DateTime(day, time) == [t |-> "datetime", day |-> day, time |-> time]
\* the text of a day and a time in the format number style of the list
\* tried by _add_derived_metadata (the formats from the fourth on hold the
\* day only, and time is 0)
DateStr(day, time, style) ==
    [t |-> "datestr", day |-> day, time |-> time, style |-> style]
\* strftime('%Y-%m-%d %H:%M:%S')
DateText(day, time) == DateStr(day, time, 2)

\* the text of ', '.join(parts)
JoinedText(value) ==
    JoinWith(<<",", " ">>, [i \in DOMAIN value.parts |-> value.parts[i].w])

\* _clean_value
RECURSIVE clean_value(_)
clean_value(value) ==
    CASE value.t = "none" -> None
      [] value.t \in {"num", "quot"} -> value
      [] value.t \in {"bytes", "str"} ->
             IF Strip(StripNul(value.w)) # <<>>
             THEN Str(Strip(StripNul(value.w))) ELSE None
      [] value.t = "badbytes" -> None
      [] value.t = "dict" ->
             LET kept == { k \in DOMAIN value.items :
                             clean_value(value.items[k]) # None }
             IN  IF kept = {} THEN None
                 ELSE PyDict([k \in kept |-> clean_value(value.items[k])])
      [] value.t \in {"list3", "tuple3"} -> List3(value.d, value.m, value.s)
      [] value.t = "datetime" -> DateText(value.day, value.time)
      [] value.t = "joined" ->
             IF Strip(StripNul(JoinedText(value))) # <<>>
             THEN Str(Strip(StripNul(JoinedText(value)))) ELSE None
      [] value.t \in {"tuple", "list"} ->
             LET cleaned == [i \in DOMAIN value.items |->
                                clean_value(value.items[i])]
                 cleaned_list == SelectSeq(cleaned, LAMBDA x : x # None)
             IN  IF cleaned_list = <<>> THEN None
                 ELSE IF Len(cleaned_list) = 1 THEN cleaned_list[1]
                 ELSE PyList(cleaned_list)
      [] value.t = "frac" ->
             IF value.d = 0 THEN Num(0)
             ELSE IF value.d = 1 THEN Num(value.n)
             ELSE Quotient(value.n, value.d)
      [] OTHER -> value

(***************************************************************************)
(* Device identifier: identify_device and the operations it calls.         *)
(***************************************************************************)
\* str(value), for the values a device key holds
PyStr(v) ==
    CASE v.t = "str" -> v.w
      [] v.t = "num" -> IntText(v.n)

StartsWith(w, prefix) ==
    Len(prefix) <= Len(w) /\ SubSeq(w, 1, Len(prefix)) = prefix

\* the characters below 32 other than the tab
ControlChars == { Nul, "\n", "\r" }

\* re.sub(r'\s+', ' ', text)
RECURSIVE CollapseBlanks(_)
CollapseBlanks(w) ==
    IF w = <<>> THEN <<>>
    ELSE IF IsBlank(Head(w)) THEN <<" ">> \o CollapseBlanks(StripLeft(w))
    ELSE <<Head(w)>> \o CollapseBlanks(Tail(w))

\* _clean_device_string
clean_device_string(text) ==
    IF text = <<>> THEN <<>>
    ELSE LET trimmed == Strip(SelectSeq(text, LAMBDA c : c # Nul))
             printable == SelectSeq(trimmed, LAMBDA c : c \notin ControlChars)
         IN  CollapseBlanks(printable)

\* the loop over an alias list: the first alias present with a truthy
\* value gives str(value).strip(), cleaned
CleanedAlias(md, keys) ==
    LET got == FirstTruthy(md, keys)
    IN  IF got.ok THEN Value(Str(clean_device_string(Strip(PyStr(got.v)))))
        ELSE NoValue

make_keys ==
    << "Make", "make", "EXIF:Make", "IFD0:Make", "Image Make",
       "Manufacturer", "CameraManufacturer", "DeviceManufacturer",
       "EXIF:Manufacturer", "XMP:Manufacturer", "IPTC:Manufacturer" >>
model_keys ==
    << "Model", "model", "EXIF:Model", "IFD0:Model", "Image Model",
       "CameraModel", "DeviceModel", "EXIF:CameraModel", "XMP:Model",
       "IPTC:Model" >>
software_keys ==
    << "Software", "software", "EXIF:Software", "IFD0:Software",
       "Image Software", "ProcessingSoftware", "CreatorTool",
       "XMP:CreatorTool", "XMP:Software", "IPTC:ProcessingSoftware" >>

\* _extract_make_model
extract_make_model(md) ==
    LET found_make == FirstTruthy(md, make_keys)
        found_model == FirstTruthy(md, model_keys)
        raw_make == IF found_make.ok THEN Str(Strip(PyStr(found_make.v)))
                    ELSE None
        raw_model == IF found_model.ok THEN Str(Strip(PyStr(found_model.v)))
                     ELSE None
        mk == IF Truthy(raw_make) THEN Str(clean_device_string(raw_make.w))
              ELSE raw_make
        cleaned == IF Truthy(raw_model)
                   THEN Str(clean_device_string(raw_model.w)) ELSE raw_model
        mdl == IF /\ Truthy(raw_model) /\ Truthy(mk)
                  /\ StartsWith(Lower(cleaned.w), Lower(mk.w))
               THEN Str(Strip(SubSeq(cleaned.w, Len(mk.w) + 1, Len(cleaned.w))))
               ELSE cleaned
    IN  [make |-> mk, model |-> mdl]

\* _extract_software
extract_software(md) ==
    LET got == CleanedAlias(md, software_keys)
    IN  IF got.ok THEN got.v ELSE None

lens_model_keys ==
    << "LensModel", "Lens", "EXIF:LensModel", "MakerNotes:LensModel",
       "XMP:LensModel", "Lens Model", "Lens Info", "LensInfo" >>
lens_make_keys ==
    << "LensMake", "EXIF:LensMake", "MakerNotes:LensMake", "XMP:LensMake",
       "Lens Make" >>
lens_serial_keys ==
    << "LensSerialNumber", "EXIF:LensSerialNumber",
       "MakerNotes:LensSerialNumber", "XMP:LensSerialNumber",
       "Lens Serial Number" >>
lens_spec_keys ==
    << "LensSpecification", "EXIF:LensSpecification",
       "MakerNotes:LensSpecification", "XMP:LensSpecification",
       "Lens Specification" >>

\* the table of _extract_lens_make_from_model, in its order
lens_manufacturers ==
    << << <<"c", "a", "n", "o", "n">>, <<"C", "a", "n", "o", "n">> >>,
       << <<"e", "f", "-", "s">>, <<"C", "a", "n", "o", "n">> >>,
       << <<"e", "f", "-", "m">>, <<"C", "a", "n", "o", "n">> >>,
       << <<"e", "f">>, <<"C", "a", "n", "o", "n">> >>,
       << <<"r", "f">>, <<"C", "a", "n", "o", "n">> >>,
       << <<"n", "i", "k", "k", "o", "r">>, <<"N", "i", "k", "o", "n">> >>,
       << <<"n", "i", "k", "o", "n">>, <<"N", "i", "k", "o", "n">> >>,
       << <<"s", "o", "n", "y">>, <<"S", "o", "n", "y">> >>,
       << <<"z", "e", "i", "s", "s">>, <<"Z", "e", "i", "s", "s">> >>,
       << <<"l", "e", "i", "c", "a">>, <<"L", "e", "i", "c", "a">> >>,
       << <<"s", "i", "g", "m", "a">>, <<"S", "i", "g", "m", "a">> >>,
       << <<"t", "a", "m", "r", "o", "n">>, <<"T", "a", "m", "r", "o", "n">> >>,
       << <<"t", "o", "k", "i", "n", "a">>, <<"T", "o", "k", "i", "n", "a">> >>,
       << <<"s", "a", "m", "y", "a", "n", "g">>, <<"S", "a", "m", "y", "a", "n", "g">> >>,
       << <<"r", "o", "k", "i", "n", "o", "n">>, <<"R", "o", "k", "i", "n", "o", "n">> >>,
       << <<"v", "o", "i", "g", "t", "l", "a", "n", "d", "e", "r">>, <<"V", "o", "i", "g", "t", "l", "a", "n", "d", "e", "r">> >>,
       << <<"o", "l", "y", "m", "p", "u", "s">>, <<"O", "l", "y", "m", "p", "u", "s">> >>,
       << <<"z", "u", "i", "k", "o">>, <<"O", "l", "y", "m", "p", "u", "s">> >>,
       << <<"p", "a", "n", "a", "s", "o", "n", "i", "c">>, <<"P", "a", "n", "a", "s", "o", "n", "i", "c">> >>,
       << <<"l", "u", "m", "i", "x">>, <<"P", "a", "n", "a", "s", "o", "n", "i", "c">> >>,
       << <<"f", "u", "j", "i">>, <<"F", "u", "j", "i", "f", "i", "l", "m">> >>,
       << <<"f", "u", "j", "i", "n", "o", "n">>, <<"F", "u", "j", "i", "f", "i", "l", "m">> >>,
       << <<"f", "u", "j", "i", "f", "i", "l", "m">>, <<"F", "u", "j", "i", "f", "i", "l", "m">> >>,
       << <<"p", "e", "n", "t", "a", "x">>, <<"P", "e", "n", "t", "a", "x">> >>,
       << <<"h", "a", "s", "s", "e", "l", "b", "l", "a", "d">>, <<"H", "a", "s", "s", "e", "l", "b", "l", "a", "d">> >>,
       << <<"s", "c", "h", "n", "e", "i", "d", "e", "r">>, <<"S", "c", "h", "n", "e", "i", "d", "e", "r">> >>,
       << <<"m", "a", "m", "i", "y", "a">>, <<"M", "a", "m", "i", "y", "a">> >>,
       << <<"m", "e", "y", "e", "r">>, <<"M", "e", "y", "e", "r", "-", "O", "p", "t", "i", "k">> >>,
       << <<"l", "a", "o", "w", "a">>, <<"L", "a", "o", "w", "a">> >>,
       << <<"v", "e", "n", "u", "s">>, <<"V", "e", "n", "u", "s", " ", "O", "p", "t", "i", "c", "s">> >>,
       << <<"i", "r", "i", "x">>, <<"I", "r", "i", "x">> >>,
       << <<"t", "t", "a", "r", "t", "i", "s", "a", "n">>, <<"T", "T", "A", "r", "t", "i", "s", "a", "n">> >>,
       << <<"7", "a", "r", "t", "i", "s", "a", "n", "s">>, <<"7", "A", "r", "t", "i", "s", "a", "n", "s">> >> >>

WordChars ==
    SetOf(UpperLetters) \cup SetOf(LowerLetters) \cup SetOf(Digits) \cup {"_"}
\* re.search(r'\b' + key + r'\b', w): key stands somewhere between two
\* word boundaries (every key begins and ends with a word character)
WordIn(key, w) ==
    \E i \in 1..(Len(w) - Len(key) + 1) :
        /\ SubSeq(w, i, i + Len(key) - 1) = key
        /\ i = 1 \/ w[i - 1] \notin WordChars
        /\ i + Len(key) - 1 = Len(w) \/ w[i + Len(key)] \notin WordChars

\* _extract_lens_make_from_model, from entry i of the table on
RECURSIVE LensMakeFrom(_, _)
LensMakeFrom(lens_model_lower, i) ==
    IF i > Len(lens_manufacturers) THEN None
    ELSE IF \/ StartsWith(lens_model_lower, lens_manufacturers[i][1])
            \/ WordIn(lens_manufacturers[i][1], lens_model_lower)
         THEN Str(lens_manufacturers[i][2])
         ELSE LensMakeFrom(lens_model_lower, i + 1)

extract_lens_make_from_model(lens_model) ==
    IF lens_model = <<>> THEN None ELSE LensMakeFrom(Lower(lens_model), 1)

\* float(x) succeeds
IsFloatable(v) == v.t \in {"num", "quot", "numstr"}
\* f"{focal_length_str} {aperture_str}": one number where the two ends are
\* equal, both ends otherwise
LensSpecText(min_focal_length, max_focal_length, min_aperture, max_aperture) ==
    [t |-> "lensspec",
     focal |-> IF min_focal_length = max_focal_length
               THEN <<min_focal_length>>
               ELSE <<min_focal_length, max_focal_length>>,
     aperture |-> IF min_aperture = max_aperture THEN <<min_aperture>>
                  ELSE <<min_aperture, max_aperture>>]

\* the lens specification block of _extract_lens_info
LensSpecification(md) ==
    LET got == FirstTruthy(md, lens_spec_keys)
    IN  IF /\ got.ok /\ got.v.t \in {"list", "tuple"}
           /\ Len(got.v.items) >= 4
           /\ \A i \in 1..4 : IsFloatable(got.v.items[i])
        THEN LET x == got.v.items
             IN  ("MinFocalLength" :> x[1]) @@ ("MaxFocalLength" :> x[2])
                 @@ ("MinAperture" :> x[3]) @@ ("MaxAperture" :> x[4])
                 @@ ("LensSpecification" :>
                        LensSpecText(x[1], x[2], x[3], x[4]))
        ELSE Empty

\* _extract_lens_info
\* the 'Lens' entry: make and model, or the model alone
WithLensName(lens_info) ==
    IF Has(lens_info, "LensMake") /\ Has(lens_info, "LensModel")
    THEN Put(lens_info, "Lens",
             Str(lens_info["LensMake"].w \o <<" ">>
                     \o lens_info["LensModel"].w))
    ELSE IF Has(lens_info, "LensModel")
    THEN Put(lens_info, "Lens", lens_info["LensModel"])
    ELSE lens_info

\* the lens make taken from the lens model when no make is stored
WithDerivedLensMake(lens_info) ==
    IF Has(lens_info, "LensModel") /\ ~Has(lens_info, "LensMake")
    THEN PutWhen(Truthy(extract_lens_make_from_model(lens_info["LensModel"].w)),
                 lens_info, "LensMake",
                 extract_lens_make_from_model(lens_info["LensModel"].w))
    ELSE lens_info

extract_lens_info(md) ==
    WithLensName(WithDerivedLensMake(
        Update(PutIf(PutIf(PutIf(Empty, "LensModel",
                                 CleanedAlias(md, lens_model_keys)),
                           "LensMake", CleanedAlias(md, lens_make_keys)),
                     "LensSerialNumber", CleanedAlias(md, lens_serial_keys)),
               LensSpecification(md))))

serial_keys ==
    << "SerialNumber", "CameraSerialNumber", "BodySerialNumber",
       "EXIF:SerialNumber", "MakerNotes:SerialNumber", "XMP:SerialNumber",
       "Camera Serial Number" >>
firmware_keys ==
    << "FirmwareVersion", "Firmware", "EXIF:FirmwareVersion",
       "MakerNotes:FirmwareVersion", "XMP:FirmwareVersion" >>
owner_keys ==
    << "OwnerName", "CameraOwnerName", "EXIF:OwnerName",
       "MakerNotes:OwnerName", "XMP:OwnerName", "Owner" >>
mode_keys ==
    << "ExposureMode", "ExposureProgram", "SceneCaptureType",
       "EXIF:ExposureMode", "EXIF:ExposureProgram", "EXIF:SceneCaptureType",
       "MakerNotes:ExposureMode", "XMP:ExposureMode" >>
os_keys ==
    << "OSVersion", "OperatingSystem", "Software", "XMP:OSVersion",
       "XMP:OperatingSystem" >>
\* the names of the numeric exposure programs and scene capture types,
\* entry n + 1 for the number n
exposure_programs ==
    << <<"N", "o", "t", " ", "D", "e", "f", "i", "n", "e", "d">>,
       <<"M", "a", "n", "u", "a", "l">>,
       <<"P", "r", "o", "g", "r", "a", "m", " ", "A", "E">>,
       <<"A", "p", "e", "r", "t", "u", "r", "e", " ", "P", "r", "i", "o", "r", "i", "t", "y">>,
       <<"S", "h", "u", "t", "t", "e", "r", " ", "P", "r", "i", "o", "r", "i", "t", "y">>,
       <<"C", "r", "e", "a", "t", "i", "v", "e", " ", "(", "S", "l", "o", "w", " ", "S", "p", "e", "e", "d", ")">>,
       <<"A", "c", "t", "i", "o", "n", " ", "(", "H", "i", "g", "h", " ", "S", "p", "e", "e", "d", ")">>,
       <<"P", "o", "r", "t", "r", "a", "i", "t">>,
       <<"L", "a", "n", "d", "s", "c", "a", "p", "e">>,
       <<"B", "u", "l", "b">> >>
scene_types ==
    << <<"S", "t", "a", "n", "d", "a", "r", "d">>,
       <<"L", "a", "n", "d", "s", "c", "a", "p", "e">>,
       <<"P", "o", "r", "t", "r", "a", "i", "t">>,
       <<"N", "i", "g", "h", "t">>,
       <<"N", "i", "g", "h", "t", " ", "P", "o", "r", "t", "r", "a", "i", "t">>,
       <<"B", "a", "c", "k", "l", "i", "g", "h", "t">>,
       <<"B", "a", "c", "k", "l", "i", "g", "h", "t", " ", "P", "o", "r", "t", "r", "a", "i", "t">>,
       <<"M", "a", "c", "r", "o">>, <<"S", "p", "o", "r", "t", "s">>,
       <<"A", "c", "t", "i", "o", "n">>,
       <<"F", "i", "r", "e", "w", "o", "r", "k", "s">>,
       <<"C", "h", "i", "l", "d", "r", "e", "n">>, <<"P", "e", "t", "s">> >>

\* str(mode).isdigit() for an int or a str
IsDigitText(w) == w # <<>> /\ \A i \in DOMAIN w : w[i] \in SetOf(Digits)
\* int(text) of a text of digits
RECURSIVE ParseInt(_)
ParseInt(w) ==
    IF w = <<>> THEN 0
    ELSE 10 * ParseInt(SubSeq(w, 1, Len(w) - 1))
         + (CHOOSE d \in 0..9 : Digits[d + 1] = w[Len(w)])

\* names.get(mode_int, f"Unknown ({mode_int})")
ModeName(names, mode_int) ==
    IF mode_int < Len(names) THEN names[mode_int + 1]
    ELSE <<"U", "n", "k", "n", "o", "w", "n", " ", "(">> \o IntText(mode_int)
             \o <<")">>

EndsWith(w, suffix) ==
    Len(suffix) <= Len(w)
    /\ SubSeq(w, Len(w) - Len(suffix) + 1, Len(w)) = suffix

\* the first key of keys present with a value that is not None
RECURSIVE FirstNotNone(_, _)
FirstNotNone(md, keys) ==
    IF keys = <<>> THEN ""
    ELSE IF Has(md, Head(keys)) /\ md[Head(keys)] # None THEN Head(keys)
    ELSE FirstNotNone(md, Tail(keys))

\* the shooting mode block of _extract_additional_device_info
ShootingMode(md) ==
    LET key == FirstNotNone(md, mode_keys)
        mode == md[key]
        numeric == mode.t \in {"num", "str"} /\ IsDigitText(PyStr(mode))
        program == key \in {"ExposureProgram", "EXIF:ExposureProgram"}
        scene == key \in {"SceneCaptureType", "EXIF:SceneCaptureType"}
    IN  IF key = "" THEN Empty
        ELSE "ShootingMode" :>
               Str(IF program /\ numeric
                   THEN ModeName(exposure_programs, ParseInt(PyStr(mode)))
                   ELSE IF scene /\ numeric
                   THEN ModeName(scene_types, ParseInt(PyStr(mode)))
                   ELSE PyStr(mode))

\* the end of the digits that begin at position i
RECURSIVE DigitsEnd(_, _)
DigitsEnd(w, i) ==
    IF i < Len(w) /\ w[i + 1] \in SetOf(Digits) THEN DigitsEnd(w, i + 1)
    ELSE i
\* the end of (\d+(?:\.\d+)*) whose first digits end at position j
RECURSIVE VersionEnd(_, _)
VersionEnd(w, j) ==
    IF j + 2 <= Len(w) /\ w[j + 1] = "." /\ w[j + 2] \in SetOf(Digits)
    THEN VersionEnd(w, DigitsEnd(w, j + 2))
    ELSE j
\* re.search(r'(\d+(?:\.\d+)*)', w): the first such text, if any
VersionMatch(w) ==
    LET starts == { i \in DOMAIN w : w[i] \in SetOf(Digits) }
        i == CHOOSE s \in starts : \A o \in starts : s <= o
    IN  IF starts = {} THEN NoValue
        ELSE Value(Str(SubSeq(w, i, VersionEnd(w, DigitsEnd(w, i)))))

\* the operating system block of _extract_additional_device_info
OperatingSystem(md) ==
    LET got == FirstTruthy(md, os_keys)
        os_version == Strip(PyStr(got.v))
        ios == \/ Contains(<<"i", "O", "S">>, os_version)
               \/ Contains(<<"i", "P", "h", "o", "n", "e", " ", "O", "S">>, os_version)
        android == Contains(<<"A", "n", "d", "r", "o", "i", "d">>, os_version)
    IN  IF ~got.ok THEN Empty
        ELSE IF ios
        THEN PutIf("OperatingSystem" :> Str(<<"i", "O", "S">>), "OSVersion",
                   VersionMatch(os_version))
        ELSE IF android
        THEN PutIf("OperatingSystem" :> Str(<<"A", "n", "d", "r", "o", "i", "d">>), "OSVersion",
                   VersionMatch(os_version))
        ELSE "OSVersion" :> Str(clean_device_string(os_version))

\* _extract_additional_device_info
extract_additional_device_info(md, dtype) ==
    LET a1 == PutIf(Empty, "DeviceSerialNumber", CleanedAlias(md, serial_keys))
        a2 == PutIf(a1, "FirmwareVersion", CleanedAlias(md, firmware_keys))
        a3 == PutIf(a2, "OwnerName", CleanedAlias(md, owner_keys))
        a4 == IF dtype \in {Camera, DigitalCamera, ActionCamera}
              THEN Update(a3, ShootingMode(md)) ELSE a3
    IN  IF dtype \in {Smartphone, Tablet}
        THEN Update(a4, OperatingSystem(md)) ELSE a4

\* _lookup_device_in_database in one step
lookup_device_in_database(mk, mdl, dtype, db, lev) ==
    IF ~LookupPossible(mk, mdl, dtype, db) THEN Empty
    ELSE LET entries == db[DbCategory(dtype)]
             make_lower == Lower(mk.w)
             model_lower == Lower(mdl.w)
             exact == FirstExact(entries, 1, make_lower, model_lower)
             fuzzy == FirstFuzzy(entries, 1, make_lower, model_lower, lev)
             best_match == BestMatch(entries, 1, make_lower, model_lower,
                                     lev, NoMatch, Ratio(0, 1))
         IN  IF exact # NoMatch THEN format_db_device_info(entries[exact])
             ELSE IF fuzzy # NoMatch
             THEN format_db_device_info(entries[fuzzy])
             ELSE IF best_match # NoMatch
             THEN format_db_device_info(entries[best_match])
             ELSE Empty

\* self.known_manufacturers, in its order
known_manufacturers ==
    << << <<"a", "p", "p", "l", "e">>, <<"A", "p", "p", "l", "e">> >>,
       << <<"s", "a", "m", "s", "u", "n", "g">>, <<"S", "a", "m", "s", "u", "n", "g">> >>,
       << <<"h", "u", "a", "w", "e", "i">>, <<"H", "u", "a", "w", "e", "i">> >>,
       << <<"x", "i", "a", "o", "m", "i">>, <<"X", "i", "a", "o", "m", "i">> >>,
       << <<"g", "o", "o", "g", "l", "e">>, <<"G", "o", "o", "g", "l", "e">> >>,
       << <<"o", "n", "e", "p", "l", "u", "s">>, <<"O", "n", "e", "P", "l", "u", "s">> >>,
       << <<"o", "p", "p", "o">>, <<"O", "P", "P", "O">> >>,
       << <<"v", "i", "v", "o">>, <<"V", "i", "v", "o">> >>,
       << <<"m", "o", "t", "o", "r", "o", "l", "a">>, <<"M", "o", "t", "o", "r", "o", "l", "a">> >>,
       << <<"l", "g">>, <<"L", "G">> >>,
       << <<"s", "o", "n", "y">>, <<"S", "o", "n", "y">> >>,
       << <<"h", "t", "c">>, <<"H", "T", "C">> >>,
       << <<"n", "o", "k", "i", "a">>, <<"N", "o", "k", "i", "a">> >>,
       << <<"a", "s", "u", "s">>, <<"A", "S", "U", "S">> >>,
       << <<"l", "e", "n", "o", "v", "o">>, <<"L", "e", "n", "o", "v", "o">> >>,
       << <<"z", "t", "e">>, <<"Z", "T", "E">> >>,
       << <<"c", "a", "n", "o", "n">>, <<"C", "a", "n", "o", "n">> >>,
       << <<"n", "i", "k", "o", "n">>, <<"N", "i", "k", "o", "n">> >>,
       << <<"f", "u", "j", "i">>, <<"F", "u", "j", "i", "f", "i", "l", "m">> >>,
       << <<"f", "u", "j", "i", "f", "i", "l", "m">>, <<"F", "u", "j", "i", "f", "i", "l", "m">> >>,
       << <<"o", "l", "y", "m", "p", "u", "s">>, <<"O", "l", "y", "m", "p", "u", "s">> >>,
       << <<"p", "a", "n", "a", "s", "o", "n", "i", "c">>, <<"P", "a", "n", "a", "s", "o", "n", "i", "c">> >>,
       << <<"p", "e", "n", "t", "a", "x">>, <<"P", "e", "n", "t", "a", "x">> >>,
       << <<"l", "e", "i", "c", "a">>, <<"L", "e", "i", "c", "a">> >>,
       << <<"h", "a", "s", "s", "e", "l", "b", "l", "a", "d">>, <<"H", "a", "s", "s", "e", "l", "b", "l", "a", "d">> >>,
       << <<"k", "o", "d", "a", "k">>, <<"K", "o", "d", "a", "k">> >>,
       << <<"s", "i", "g", "m", "a">>, <<"S", "i", "g", "m", "a">> >>,
       << <<"r", "i", "c", "o", "h">>, <<"R", "i", "c", "o", "h">> >>,
       << <<"g", "o", "p", "r", "o">>, <<"G", "o", "P", "r", "o">> >>,
       << <<"d", "j", "i">>, <<"D", "J", "I">> >> >>

\* _normalize_manufacturer, from entry i of the table on
RECURSIVE NormalizeFrom(_, _)
NormalizeFrom(mk, i) ==
    IF i > Len(known_manufacturers) THEN mk
    ELSE IF StartsWith(Lower(mk), known_manufacturers[i][1])
         THEN known_manufacturers[i][2]
         ELSE NormalizeFrom(mk, i + 1)

normalize_manufacturer(mk) == IF mk = <<>> THEN mk ELSE NormalizeFrom(mk, 1)

\* mapping[key] = value when the test holds
\* identify_device: the mapping device_info it returns
\* device_info after the make, model, software and device type are stored
BasicDeviceInfo(mk, mdl, software, dtype) ==
    PutWhen(Truthy(dtype),
            PutWhen(Truthy(software),
                    PutWhen(Truthy(mdl),
                            PutWhen(Truthy(mk), Empty, "DeviceMake", mk),
                            "DeviceModel", mdl),
                    "Software", software),
            "DeviceType", dtype)

\* device_info.update(lens_info) for a camera, device_info.update(additional_info)
WithDetails(dtype, md, device_info) ==
    Update(IF dtype = Camera THEN Update(device_info, extract_lens_info(md))
           ELSE device_info,
           extract_additional_device_info(md, dtype))

\* the normalized manufacturer, stored if it differs from the make
WithManufacturer(mk, normalized, device_info) ==
    PutWhen(Truthy(mk) /\ ~Has(device_info, "Manufacturer")
                /\ normalized # mk.w,
            device_info, "Manufacturer", Str(normalized))

\* the device name, stored if make and model are there and no name is
WithDeviceName(mk, mdl, device_info) ==
    PutWhen(Truthy(mk) /\ Truthy(mdl) /\ ~Has(device_info, "DeviceName"),
            device_info, "DeviceName", Str(mk.w \o <<" ">> \o mdl.w))

\* identify_device once make, model, software and device type are known;
\* an exception of the database lookup ends it with the mapping built so far
IdentifyAs(mk, mdl, software, dtype, md, db, lev) ==
    IF lookup_raises(mk, mdl, dtype, db)
    THEN WithDetails(dtype, md, BasicDeviceInfo(mk, mdl, software, dtype))
    ELSE
    WithDeviceName(mk, mdl,
        WithManufacturer(mk, normalize_manufacturer(mk.w),
            \* entries of the database are added where the key is missing
            Update(lookup_device_in_database(mk, mdl, dtype, db, lev),
                   WithDetails(dtype, md,
                               BasicDeviceInfo(mk, mdl, software, dtype)))))

\* identify_device once make and model are extracted
IdentifyFrom(found, md, db, lev) ==
    IdentifyAs(found.make, found.model, extract_software(md),
               identify_device_type(found.make, found.model, md), md, db, lev)

identify_device(md, db, lev) == IdentifyFrom(extract_make_model(md), md, db, lev)

(***************************************************************************)
(* Tag normalizer: _process_metadata and _add_derived_metadata.            *)
(***************************************************************************)
\* the outcome of the loop body of _process_metadata for one value
ProcessedValue(value) ==
    IF value = None \/ (value.t = "str" /\ Strip(value.w) = <<>>) THEN Skipped
    ELSE CASE value.t = "bytes" -> DecodedText(value)
           [] value.t = "badbytes" -> Skipped
           [] value.t = "datetime" ->
                  Stored(DateText(value.day, value.time))
           [] value.t \in {"list", "tuple"} ->
                  IF Len(value.items) = 0 THEN Skipped
                  ELSE IF Len(value.items) = 1
                  THEN Stored(clean_value(value.items[1]))
                  ELSE LET cleaned == [i \in DOMAIN value.items |->
                                          clean_value(value.items[i])]
                           cleaned_list ==
                               SelectSeq(cleaned, LAMBDA x : x # None)
                       IN  IF cleaned_list # <<>>
                           THEN Stored(PyList(cleaned_list)) ELSE Skipped
           [] OTHER ->
                  LET cleaned == clean_value(value)
                  IN  IF cleaned # None THEN Stored(cleaned) ELSE Skipped

\* the numerator and the denominator of a number
NumeratorOf(v) == v.n
DenominatorOf(v) == IF v.t = "quot" THEN v.d ELSE 1

\* common_ratios, in its order: the ratio in hundredths and its name
common_ratios ==
    << << 100, <<"1", ":", "1", " ", "(", "S", "q", "u", "a", "r", "e", ")">> >>,
       << 133, <<"4", ":", "3">> >>, << 150, <<"3", ":", "2">> >>,
       << 178, <<"1", "6", ":", "9">> >>,
       << 185, <<"1", ".", "8", "5", ":", "1", " ", "(", "C", "i", "n", "e", "m", "a", ")">> >>,
       << 235, <<"2", ".", "3", "5", ":", "1", " ", "(", "C", "i", "n", "e", "m", "a", "s", "c", "o", "p", "e", ")">> >>,
       << 75, <<"3", ":", "4", " ", "(", "P", "o", "r", "t", "r", "a", "i", "t", ")">> >>,
       << 67, <<"2", ":", "3", " ", "(", "P", "o", "r", "t", "r", "a", "i", "t", ")">> >>,
       << 56, <<"9", ":", "1", "6", " ", "(", "P", "o", "r", "t", "r", "a", "i", "t", ")">> >> >>

\* min(common_ratios.keys(), key=lambda x: abs(x - aspect_ratio)) for the
\* aspect ratio n / d: the entry of the table that is closest, the first
\* of them when several are equally close
ClosestRatio(n, d) ==
    LET off(i) == Abs(common_ratios[i][1] * d - 100 * n)
    IN  CHOOSE i \in DOMAIN common_ratios :
            /\ \A j \in DOMAIN common_ratios : off(i) <= off(j)
            /\ \A j \in 1..(i - 1) : off(j) > off(i)

\* the aspect ratio and megapixels blocks of _add_derived_metadata
ImageDerived(result) ==
    IF /\ Has(result, "ImageWidth") /\ Has(result, "ImageHeight")
       /\ IsFloatable(result["ImageWidth"])
       /\ IsFloatable(result["ImageHeight"])
       /\ NumeratorOf(result["ImageWidth"]) > 0
       /\ NumeratorOf(result["ImageHeight"]) > 0
    THEN LET width == result["ImageWidth"]
             height == result["ImageHeight"]
             \* the aspect ratio n / d
             n == NumeratorOf(width) * DenominatorOf(height)
             d == DenominatorOf(width) * NumeratorOf(height)
             closest_ratio == ClosestRatio(n, d)
             \* width * height = pn / pd
             pn == NumeratorOf(width) * NumeratorOf(height)
             pd == DenominatorOf(width) * DenominatorOf(height)
             r1 == Put(result, "AspectRatio",
                       Quotient(RoundHalfEven(1000 * n, d), 1000))
             r2 == IF Abs(common_ratios[closest_ratio][1] * d - 100 * n)
                      < 5 * d
                   THEN Put(r1, "AspectRatioName",
                            Str(common_ratios[closest_ratio][2]))
                   ELSE r1
         IN  Put(r2, "Megapixels",
                 Quotient(RoundHalfEven(100 * pn, 1000000 * pd), 100))
    ELSE result

date_fields ==
    << <<"DateTimeOriginal", "DateTaken">>, <<"CreateDate", "DateCreated">>,
       <<"ModifyDate", "DateModified">> >>

\* the formatted date fields block, from entry i of date_fields on
RECURSIVE DateDerived(_, _)
DateDerived(result, i) ==
    IF i > Len(date_fields) THEN result
    ELSE LET source_field == date_fields[i][1]
             target_field == date_fields[i][2]
         IN  IF /\ Has(result, source_field) /\ ~Has(result, target_field)
                /\ result[source_field].t = "datestr"
             THEN DateDerived(Put(result, target_field,
                                  DateText(result[source_field].day,
                                           result[source_field].time)),
                              i + 1)
             ELSE DateDerived(result, i + 1)

\* isinstance(value, str)
IsText(v) ==
    IsStr(v) \/ v.t \in {"datestr", "joined", "fmtpair", "url", "hms", "lensspec"}

camera_fields == << "Make", "Model", "Software" >>

\* the camera model info block of _add_derived_metadata
CameraDerived(result) ==
    LET present == SelectSeq(camera_fields, LAMBDA field : Has(result, field))
        camera_info == [i \in DOMAIN present |-> result[present[i]]]
    IN  IF camera_info = <<>> THEN Stored(result)
        ELSE IF \E i \in DOMAIN camera_info : ~IsText(camera_info[i])
        THEN Raises("TypeError")
        ELSE Stored(Put(result, "CameraInfo",
                 Str(JoinWith(<<" ", "-", " ">>,
                              [i \in DOMAIN camera_info |-> camera_info[i].w]))))

\* exposure_fields, in its order: the source field and its label
exposure_fields ==
    << <<"FNumber", "F-Stop">>, <<"ExposureTime", "Exposure Time">>,
       <<"ISOSpeedRatings", "ISO">>, <<"FocalLength", "Focal Length">> >>

\* isinstance(value, (int, float))
IsIntOrFloat(v) == v.t \in {"num", "quot"}

\* the text one exposure field contributes: f"{label}: {value}", value
\* formatted by its field
ExposureText(source_field, label, value) ==
    LET Formatted(fmt, v) ==
            Stored([label |-> label, fmt |-> fmt, value |-> v])
    IN  IF ~IsIntOrFloat(value) THEN Formatted("{}", value)
        ELSE CASE source_field = "FNumber" -> Formatted("f/{}", value)
               [] source_field = "FocalLength" -> Formatted("{}mm", value)
               [] source_field = "ExposureTime" ->
                      IF NumeratorOf(value) >= DenominatorOf(value)
                      THEN Formatted("{}s", value)
                      ELSE IF NumeratorOf(value) = 0
                      THEN Raises("ZeroDivisionError")
                      ELSE Formatted("1/{}s",
                               Num(IF NumeratorOf(value) > 0
                                   THEN RoundHalfEven(DenominatorOf(value),
                                                      NumeratorOf(value))
                                   ELSE -RoundHalfEven(DenominatorOf(value),
                                                       -NumeratorOf(value))))
               [] OTHER -> Formatted("{}", value)

\* the exposure info block of _add_derived_metadata
ExposureDerived(result) ==
    LET present == SelectSeq(exposure_fields,
                             LAMBDA entry : Has(result, entry[1]))
        exposure_info == [i \in DOMAIN present |->
                             ExposureText(present[i][1], present[i][2],
                                          result[present[i][1]])]
    IN  IF present = <<>> THEN Stored(result)
        ELSE IF \E i \in DOMAIN exposure_info : exposure_info[i].raised # ""
        THEN Raises("ZeroDivisionError")
        ELSE Stored(Put(result, "ExposureInfo",
                 [t |-> "exposureinfo",
                  parts |-> [i \in DOMAIN exposure_info |->
                                exposure_info[i].v]]))

\* _add_derived_metadata: the mapping, or the exception that leaves it
add_derived_metadata(md) ==
    LET dated == DateDerived(ImageDerived(md), 1)
        with_camera == CameraDerived(dated)
    IN  IF with_camera.raised # "" THEN with_camera
        ELSE ExposureDerived(with_camera.v)

\* the loop of _process_metadata: the values that are kept, cleaned
CleanedRecord(md) ==
    LET kept == { k \in DOMAIN md : ProcessedValue(md[k]).keep }
    IN  [k \in kept |-> ProcessedValue(md[k]).v]

\* _process_metadata without the final ordering
process_metadata(md) == add_derived_metadata(CleanedRecord(md))

(***************************************************************************)
(* Specification of the device type: _identify_device_type applied to a    *)
(* make, a model and a record.                                             *)
(***************************************************************************)
MaxDeviceKeys == 3   \* keys in a record handed to the device type rules

Makes ==
    { None, Str(<<>>), Str(<<"A", "p", "p", "l", "e">>), Str(<<"C", "a", "n", "o", "n">>), Str(<<"D", "J", "I">>), Str(<<"G", "o", "P", "r", "o">>), Str(<<"A", "c", "m", "e">>) }
Models ==
    { None, Str(<<"i", "P", "a", "d", " ", "P", "r", "o">>), Str(<<"E", "O", "S", " ", "R", "5">>), Str(<<"H", "E", "R", "O", "9">>), Str(<<"P", "h", "o", "n", "e", " ", "X">>), Str(<<"C", "a", "m", "e", "r", "a", " ", "Z">>), Str(<<"D", "r", "o", "n", "e", " ", "Q">>), Str(<<"Z", "1">>) }
DeviceTypeKeys ==
    { "DeviceType", "LensModel", "FocalLength", "FNumber", "ISO",
      "ExposureTime" }

InitDeviceType ==
    /\ pc = "dt_identify"
    /\ make \in Makes
    /\ model \in Models
    /\ metadata \in Records(DeviceTypeKeys, MaxDeviceKeys)
    /\ device_type = None
    /\ IdleOutsideDeviceType

IdentifyDeviceType ==
    /\ pc = "dt_identify"
    /\ device_type' = identify_device_type(make, model, metadata)
    /\ pc' = "dt_done"
    /\ UNCHANGED <<metadata, make, model, outsideDeviceType>>

NextDeviceType == IdentifyDeviceType
SpecDeviceType == InitDeviceType /\ [][NextDeviceType]_vars

(***************************************************************************)
(* Specification of the database lookup: _lookup_device_in_database        *)
(* applied to a make, a model, a device type and a database.               *)
(***************************************************************************)
MaxEntries == 2      \* entries in the searched category of the database

Entry(mk, mdl) == [make |-> Str(mk), model |-> Str(mdl)]

EntryPool ==
    { Entry(<<"C", "a", "n", "o", "n">>, <<"E", "O", "S", " ", "R", "5">>),
      Entry(<<"C", "a", "n", "o", "n">>, <<"E", "O", "S", " ", "R", "6">>),
      Entry(<<"P", "e", "n", "t", "a", "x">>, <<"K", "-", "1">>),
      Entry(<<"C", "a", "n", "o", "n", " ", "I", "n", "c">>, <<"E", "O", "S", " ", "R", "5">>),
      [make |-> Str(<<"P", "e", "n", "t", "a", "x">>)],
      [make |-> Str(<<"C", "A", "N", "O", "N">>), model |-> Str(<<"E", "O", "S", " ", "R", "5">>),
       sensor_type |-> Str(<<"C", "M", "O", "S">>), lens_mount |-> Str(<<>>)] }

RECURSIVE SeqsUpTo(_, _)
SeqsUpTo(S, n) ==
    IF n = 0 THEN { <<>> }
    ELSE LET shorter == SeqsUpTo(S, n - 1)
         IN  shorter \cup { Append(q, e) : q \in shorter, e \in S }

PhoneEntries == << Entry(<<"A", "p", "p", "l", "e">>, <<"i", "P", "h", "o", "n", "e">>) >>

Databases ==
    { Empty }
    \cup { [cameras |-> c] : c \in SeqsUpTo(EntryPool, MaxEntries) }
    \cup { [cameras |-> c, phones |-> PhoneEntries] :
               c \in SeqsUpTo(EntryPool, 1) }

QueryMakes == { None, Str(<<"C", "a", "n", "o", "n">>), Str(<<"c", "a", "n", "o", "n">>), Str(<<"P", "e", "n", "t", "a", "x">>) }
QueryModels ==
    { None, Str(<<"E", "O", "S", " ", "R", "5">>), Str(<<"E", "O", "S", "-", "R", "5", " ">>),
      Str(<<"E", "O", "S">>), Str(<<"E", "O", "S", " ", "R", "6">>),
      Str(<<"K", " ", "1", " ">>) }

InitLookup ==
    /\ pc = "lk_exact"
    /\ make \in QueryMakes
    /\ model \in QueryModels
    /\ device_type \in { Smartphone, None }
    /\ device_db \in Databases
    /\ levenshtein \in BOOLEAN
    /\ lookup_tier = 0
    /\ db_info = Empty
    /\ metadata = Empty
    /\ IdleGps /\ assessment = NoAssessment /\ sensitive_fields = <<>>
    /\ IdleDecoders /\ IdleExtract /\ IdleGeo /\ IdleUpdate /\ IdleGui /\ IdleFrame

\* the entries searched
SearchedEntries == device_db[DbCategory(device_type)]

LookupReturn(t, info) ==
    /\ lookup_tier' = t
    /\ db_info' = info
    /\ pc' = "lk_done"

LookupContinue(to) ==
    /\ pc' = to
    /\ UNCHANGED <<lookup_tier, db_info>>

\* the early returns and the first loop
LookupExact ==
    /\ pc = "lk_exact"
    /\ IF ~LookupPossible(make, model, device_type, device_db)
       THEN LookupReturn(0, Empty)
       ELSE LET i == FirstExact(SearchedEntries, 1, Lower(make.w),
                                Lower(model.w))
            IN  IF i # NoMatch
                THEN LookupReturn(1, format_db_device_info(SearchedEntries[i]))
                ELSE LookupContinue("lk_fuzzy")
    /\ UNCHANGED <<device_db, levenshtein, outsideLookup>>

\* the second loop
LookupFuzzy ==
    /\ pc = "lk_fuzzy"
    /\ LET i == FirstFuzzy(SearchedEntries, 1, Lower(make.w), Lower(model.w),
                           levenshtein)
       IN  IF i # NoMatch
           THEN LookupReturn(2, format_db_device_info(SearchedEntries[i]))
           ELSE LookupContinue("lk_best")
    /\ UNCHANGED <<device_db, levenshtein, outsideLookup>>

\* the third loop and the final returns
LookupBest ==
    /\ pc = "lk_best"
    /\ LET best_match == BestMatch(SearchedEntries, 1, Lower(make.w),
                                   Lower(model.w), levenshtein, NoMatch,
                                   Ratio(0, 1))
       IN  IF best_match # NoMatch
           THEN LookupReturn(3,
                    format_db_device_info(SearchedEntries[best_match]))
           ELSE LookupReturn(0, Empty)
    /\ UNCHANGED <<device_db, levenshtein, outsideLookup>>

NextLookup == LookupExact \/ LookupFuzzy \/ LookupBest
SpecLookup == InitLookup /\ [][NextLookup]_vars

(***************************************************************************)
(* Claims about the device type.                                           *)
(***************************************************************************)
\* whether rule r of the classification applies to (mk, mdl, md)
RuleMatches(r, mk, mdl, md) ==
    LET make_lower == LowerOrEmpty(mk)
        model_lower == LowerOrEmpty(mdl)
    IN  CASE r = "a" -> Has(md, "DeviceType")
          [] r = "unknown" -> ~Truthy(mk) /\ ~Truthy(mdl)
          [] r = "b" -> AnyContained(smartphone_manufacturers, make_lower)
          [] r = "c" -> AnyContained(camera_manufacturers, make_lower)
          [] r = "d" -> AnyContained(drone_manufacturers, make_lower)
          [] r = "e" -> \/ AnyContained(action_camera_indicators, make_lower)
                        \/ AnyContained(action_camera_indicators, model_lower)
          [] r = "f-phone" -> AnyContained(phone_indicators, model_lower)
          [] r = "f-camera" -> AnyContained(camera_indicators, model_lower)
          [] r = "f-drone" -> AnyContained(drone_indicators, model_lower)
          [] r = "g" -> lens_indicators \cap DOMAIN md # {}
          [] r = "h" -> /\ {"ISO", "ExposureTime"} \subseteq DOMAIN md
                        /\ {"FocalLength", "FNumber"} \cap DOMAIN md # {}
          [] r = "i" -> Truthy(mk) \/ Truthy(mdl)

\* the outcome of rule r
RuleOutcome(r, mk, mdl, md) ==
    CASE r = "a" -> md["DeviceType"]
      [] r = "unknown" -> None
      [] r = "b" -> IF AnyContained(tablet_indicators, LowerOrEmpty(mdl))
                    THEN Tablet ELSE Smartphone
      [] r \in {"c", "f-camera", "g", "h"} -> Camera
      [] r \in {"d", "f-drone"} -> Drone
      [] r = "e" -> ActionCamera
      [] r = "f-phone" -> Smartphone
      [] r = "i" -> DigitalCamera

\* the outcome of the first rule of the list that applies; None without one
RECURSIVE FirstRuleOutcome(_, _, _, _)
FirstRuleOutcome(rules, mk, mdl, md) ==
    IF rules = <<>> THEN None
    ELSE IF RuleMatches(Head(rules), mk, mdl, md)
         THEN RuleOutcome(Head(rules), mk, mdl, md)
         ELSE FirstRuleOutcome(Tail(rules), mk, mdl, md)

StatedRuleOrder ==
    << "a", "b", "c", "d", "e", "f-phone", "f-camera", "f-drone", "g", "h",
       "i" >>
ActualRuleOrder ==
    << "a", "unknown", "b", "c", "d", "e", "f-phone", "f-camera", "f-drone",
       "g", "h", "i" >>

\* C5 as stated: the device type is the outcome of the first matching rule
\* in the order (a), (b), ..., (i).
C5_StatedRuleOrder ==
    pc = "dt_done" =>
        device_type = FirstRuleOutcome(StatedRuleOrder, make, model, metadata)

\* C5, amended: the device type is the outcome of the first matching rule in
\* the order (a) explicit DeviceType key, then "neither make nor model is
\* known: no type", then (b), ..., (i); a later rule never overrides an
\* earlier matching one.  Without a DeviceType key, make Canon with a
\* LensModel key gives Camera, and make Apple with model iPad Pro gives
\* Tablet.
C5_ActualRuleOrder ==
    pc = "dt_done" =>
        /\ device_type =
               FirstRuleOutcome(ActualRuleOrder, make, model, metadata)
        /\ ( /\ ~Has(metadata, "DeviceType")
             /\ make = Str(<<"C", "a", "n", "o", "n">>)
             /\ Has(metadata, "LensModel") ) => device_type = Camera
        /\ ( /\ ~Has(metadata, "DeviceType")
             /\ make = Str(<<"A", "p", "p", "l", "e">>)
             /\ model = Str(<<"i", "P", "a", "d", " ", "P", "r", "o">>) ) => device_type = Tablet

\* a record with a lens key but neither make nor model gets no device type
C5_Witness ==
    /\ pc = "dt_done"
    /\ ~Has(metadata, "DeviceType")
    /\ ~Truthy(make) /\ ~Truthy(model)
    /\ Has(metadata, "LensModel")
    /\ device_type = None

(***************************************************************************)
(* Claims about the database lookup.                                       *)
(***************************************************************************)
\* the query can be looked up: make and model are known and the database
\* has the category of the device type
Searchable == LookupPossible(make, model, device_type, device_db)
Positions == IF Searchable THEN DOMAIN SearchedEntries ELSE {}
Least(S) == CHOOSE i \in S : \A j \in S : i <= j

\* tier 1: make and model equal, ignoring case
ExactAt(i) ==
    /\ GetLower(SearchedEntries[i], "make") = Lower(make.w)
    /\ GetLower(SearchedEntries[i], "model") = Lower(model.w)

\* tier 2: make equal and the models overlap or are more than 0.8 similar
SimilarAt(i) ==
    LET db_model == GetLower(SearchedEntries[i], "model")
        sim == string_similarity(db_model, Lower(model.w), levenshtein)
    IN  /\ GetLower(SearchedEntries[i], "make") = Lower(make.w)
        /\ \/ Contains(db_model, Lower(model.w))
           \/ Contains(Lower(model.w), db_model)
           \/ 10 * sim.n > 8 * sim.d

\* tier 3: ten times 0.4 * similarity(make) + 0.6 * similarity(model)
TenfoldScoreAt(i) ==
    LET ms == string_similarity(GetLower(SearchedEntries[i], "make"),
                                Lower(make.w), levenshtein)
        os == string_similarity(GetLower(SearchedEntries[i], "model"),
                                Lower(model.w), levenshtein)
    IN  Ratio(4 * ms.n * os.d + 6 * os.n * ms.d, ms.d * os.d)
Accepted == { i \in Positions : Greater(TenfoldScoreAt(i), Ratio(7, 1)) }
Highest ==
    { i \in Accepted :
          \A j \in Accepted : ~Greater(TenfoldScoreAt(j), TenfoldScoreAt(i)) }

ExpectedLookup ==
    LET exact == { i \in Positions : ExactAt(i) }
        similar == { i \in Positions : SimilarAt(i) }
        Found(t, i) ==
            [tier |-> t, info |-> format_db_device_info(SearchedEntries[i])]
    IN  IF exact # {} THEN Found(1, Least(exact))
        ELSE IF similar # {} THEN Found(2, Least(similar))
        ELSE IF Accepted # {} THEN Found(3, Least(Highest))
        ELSE [tier |-> 0, info |-> Empty]

IsNoise(c) == c \in {" ", "-"}
\* a model without its spaces and hyphens
Squash(w) == SelectSeq(w, LAMBDA c : ~IsNoise(c))
\* entry i has the make of the query (ignoring case) and a model that
\* differs from the query model by spaces and hyphens only
NoiseVariantAt(i) ==
    /\ Has(SearchedEntries[i], "model")
    /\ GetLower(SearchedEntries[i], "make") = Lower(make.w)
    /\ Squash(SearchedEntries[i].model.w) = Squash(model.w)

\* C8: a query with the make of a database entry (ignoring case) whose model
\* differs from the entry's model by whitespace or hyphen noise only is
\* resolved to such an entry by the exact or the substring/similarity tier;
\* the result is never empty.
C8_NoiseResolves ==
    pc = "lk_done" =>
        \A i \in Positions :
            NoiseVariantAt(i) =>
                /\ db_info # Empty
                /\ lookup_tier \in {1, 2}
                /\ \E j \in Positions :
                       /\ NoiseVariantAt(j)
                       /\ db_info = format_db_device_info(SearchedEntries[j])

(***************************************************************************)
(* Specification of the decoders: each conversion applied to the values    *)
(* of one library.                                                         *)
(***************************************************************************)
MaxRationals == 2    \* rationals in one multi-valued tag

\* numerator / denominator pairs as stored in a file
RationalPairs == { <<1, 2>>, <<4, 2>>, <<3, 1>>, <<-1, 2>>, <<5, 0>>, <<0, 0>> }
PairLists == SeqsUpTo(RationalPairs, MaxRationals) \ { <<>> }

\* exifread's Ratio and fractions.Fraction: in lowest terms with a positive
\* denominator; a Ratio keeps a zero denominator as it is
Reduced(pair) ==
    IF pair[2] = 0 THEN Frac(pair[1], 0)
    ELSE LET g == GCD(Abs(pair[1]), Abs(pair[2]))
             sgn == IF pair[2] < 0 THEN -1 ELSE 1
         IN  Frac(sgn * (pair[1] \div g), sgn * (pair[2] \div g))
IntPair(pair) == PyTuple(<< Num(pair[1]), Num(pair[2]) >>)

ExifreadInputs ==
    { ("EXIF FNumber" :> IfdTag(ft, [i \in DOMAIN q |-> Reduced(q[i])])) @@ more :
          ft \in {5, 10}, q \in PairLists,
          more \in { Empty,
                     "Image Orientation" :> IfdTag(3, << Num(1) >>),
                     "Thumbnail XResolution" :> IfdTag(5, << Frac(72, 0) >>),
                     "MakerNote LensInfo" :> IfdTag(2, <<" ", "L", " ">>) } }
PilInputs ==
    { (33437 :> v) @@ more :
          v \in { IntPair(r) : r \in RationalPairs }
                \cup { PyTuple(<< Num(r[1]) >>) : r \in RationalPairs }
                \cup { PyTuple(<< Num(2), Num(3), Num(0) >>),
                       PyTuple(<< IntPair(<<1, 2>>), IntPair(<<5, 0>>) >>) },
          more \in { Empty, 33434 :> Bytes(<<" ", "x">>),
                     33434 :> Bytes(<<" ">>) } }
PiexifInputs ==
    { [Exif |-> (33437 :> v)] @@ more :
          v \in { IntPair(r) : r \in RationalPairs }
                \cup { PyList([i \in DOMAIN q |-> IntPair(q[i])]) :
                           q \in PairLists },
          more \in { Empty, [GPS |-> (6 :> IntPair(<<7, 0>>))],
                     [thumbnail |-> (0 :> IntPair(<<1, 0>>))] } }
CleanInputs ==
    { [value |-> v] :
          v \in { Reduced(r) : r \in RationalPairs }
                \cup { PyList([i \in DOMAIN q |-> Reduced(q[i])]) :
                           q \in PairLists }
                \cup { None, Num(3), Str(<<" ", "a", " ">>), Str(<<" ">>),
                       Bytes(<<"b">>), PyList(<< None, Str(<<>>) >>) } }

InitDecoders ==
    /\ \/ pc = "exifread" /\ tags \in ExifreadInputs
       \/ pc = "pil" /\ tags \in PilInputs
       \/ pc = "piexif" /\ tags \in PiexifInputs
       \/ pc = "clean" /\ tags \in CleanInputs
    /\ metadata = Empty
    /\ raised = ""
    /\ IdleOutsideDecoders

\* a decoder returns its mapping or raises
DecoderReturns(from, result) ==
    /\ pc = from
    /\ metadata' = result.metadata
    /\ raised' = result.raised
    /\ pc' = from \o "_done"
    /\ UNCHANGED <<tags, outsideDecoders>>

ProcessExifreadTags == DecoderReturns("exifread", process_exifread_tags(tags))
ProcessPilExif == DecoderReturns("pil", process_pil_exif(tags))
ProcessPiexifData == DecoderReturns("piexif", process_piexif_data(tags))
CleanValue ==
    DecoderReturns("clean",
        [raised |-> "", metadata |-> [value |-> clean_value(tags.value)]])

NextDecoders ==
    ProcessExifreadTags \/ ProcessPilExif \/ ProcessPiexifData \/ CleanValue
SpecDecoders == InitDecoders /\ [][NextDecoders]_vars

(***************************************************************************)
(* Claims about the decoders.                                              *)
(***************************************************************************)
\* what the claim stores for a pair: 0 for a zero denominator, else n / d
ClaimedValue(n, d) == IF d = 0 THEN Num(0) ELSE Quotient(n, d)
ClaimedList(items, N(_), D(_)) ==
    PyList([i \in DOMAIN items |-> ClaimedValue(N(items[i]), D(items[i]))])
FracN(x) == x.n
FracD(x) == x.d
PairN(x) == x.items[1].n
PairD(x) == x.items[2].n
IsIntPair(v) == v.t = "tuple" /\ Len(v.items) = 2 /\ AllInts(v.items)
StoredAs(name, v) == Has(metadata, name) /\ metadata[name] = v

\* C6: no decoder raises on a rational with a zero denominator; the value
\* stored for a pair (n, d) is the integer 0 when d = 0 and the quotient
\* n / d otherwise, whatever the decoder: exifread Rational and SRational
\* tags with one or several values, PIL and piexif pairs of integers,
\* Fraction values.
C6_ZeroDenominatorGivesZero ==
    /\ raised = ""
    /\ pc = "exifread_done" =>
           \A tag \in DOMAIN tags \ ExifreadThumbnailTags :
               tags[tag].field_type \in {5, 10} =>
                   StoredAs(ExifreadTagName(tag),
                       IF Len(tags[tag].values) = 1
                       THEN ClaimedValue(tags[tag].values[1].n,
                                         tags[tag].values[1].d)
                       ELSE ClaimedList(tags[tag].values, FracN, FracD))
    /\ pc = "pil_done" =>
           \A tag_id \in DOMAIN tags :
               IsIntPair(tags[tag_id]) =>
                   StoredAs(PilTagName(tag_id),
                       ClaimedValue(PairN(tags[tag_id]), PairD(tags[tag_id])))
    /\ pc = "piexif_done" =>
           \A ifd_name \in DOMAIN tags \ {"thumbnail"} :
               \A tag_id \in DOMAIN tags[ifd_name] :
                   LET value == tags[ifd_name][tag_id]
                       name == PiexifTagName(<<ifd_name, tag_id>>)
                   IN  /\ IsIntPair(value) =>
                           StoredAs(name,
                               ClaimedValue(PairN(value), PairD(value)))
                       /\ value.t = "list" =>
                           StoredAs(name,
                               ClaimedList(value.items, PairN, PairD))
    /\ pc = "clean_done" =>
           /\ tags.value.t = "frac" =>
                  metadata.value = ClaimedValue(tags.value.n, tags.value.d)
           /\ (tags.value.t = "list" /\ Len(tags.value.items) > 1
                   /\ \A i \in DOMAIN tags.value.items :
                          tags.value.items[i].t = "frac") =>
                  metadata.value = ClaimedList(tags.value.items, FracN, FracD)

(***************************************************************************)
(* Orchestrator: MetadataExtractor.extract for a JPEG file.                *)
(***************************************************************************)
\* the keys of the model for which key.startswith('GPS') holds
GpsPrefixedNames ==
    { "GPS:GPSLatitude", "GPS:GPSLongitude", "GPSLatitude", "GPSLongitude",
      "GPS:Latitude", "GPS:Longitude", "GPS GPSLatitude", "GPS GPSLongitude",
      "GPS:GPSLatitudeRef", "GPS:GPSLongitudeRef", "GPSLatitudeRef",
      "GPSLongitudeRef", "GPS:GPSAltitude", "GPS:GPSAltitudeRef",
      "GPS:GPSTimeStamp", "GPS:GPSDateStamp", "GPS:GPSImgDirection",
      "GPS:GPSSpeed", "GPS:GPSSpeedRef", "GPSPosition", "GPSInfo",
      "GPSTimeStamp", "GPSDateStamp", "GPSDirection", "GPSSpeed",
      "GPSSpeedRef" }

\* any(key.startswith('GPS') for key in metadata.keys())
any_gps_key(md) == \E key \in DOMAIN md : key \in GpsPrefixedNames

\* (mutant) the GPS resolver is handed the cleaned values of the record
\* the outcome of the GPS block when parse_gps_info is handed arg and
\* returns info
GpsBlockResult(md, arg, info) ==
    [called |-> TRUE, arg |-> arg, gps_info |-> info,
     metadata |-> Update(md, info)]

\* (mutant) the GPS resolver is handed the cleaned values of the record
ExtractGpsFromCleaned(md, location_info) ==
    IF ~any_gps_key(md)
    THEN [called |-> FALSE, arg |-> Empty, gps_info |-> Empty, metadata |-> md]
    ELSE GpsBlockResult(md, CleanedRecord(md),
                        parse_gps_info(CleanedRecord(md), location_info))

\* the last block of _extract_jpeg_metadata: whether parse_gps_info is
\* called, the mapping it is handed, the mapping it returns and the record
\* after metadata.update(gps_info)
extract_gps_information(md, location_info) ==
    IF ~any_gps_key(md)
    THEN [called |-> FALSE, arg |-> Empty, gps_info |-> Empty, metadata |-> md]
    ELSE GpsBlockResult(md, md, parse_gps_info(md, location_info))

\* the characters of each key
KeySpelling ==
    ("CountryCode" :> <<"C", "o", "u", "n", "t", "r", "y", "C", "o", "d", "e">>)
    @@ ("County" :> <<"C", "o", "u", "n", "t", "y">>)
    @@ ("State" :> <<"S", "t", "a", "t", "e">>)
    @@ ("Altitude" :> <<"A", "l", "t", "i", "t", "u", "d", "e">>)
    @@ ("Artist" :> <<"A", "r", "t", "i", "s", "t">>)
    @@ ("AspectRatio" :> <<"A", "s", "p", "e", "c", "t", "R", "a", "t", "i", "o">>)
    @@ ("AspectRatioName" :> <<"A", "s", "p", "e", "c", "t", "R", "a", "t", "i", "o", "N", "a", "m", "e">>)
    @@ ("CameraInfo" :> <<"C", "a", "m", "e", "r", "a", "I", "n", "f", "o">>)
    @@ ("City" :> <<"C", "i", "t", "y">>)
    @@ ("Coordinates" :> <<"C", "o", "o", "r", "d", "i", "n", "a", "t", "e", "s">>)
    @@ ("Country" :> <<"C", "o", "u", "n", "t", "r", "y">>)
    @@ ("DateTaken" :> <<"D", "a", "t", "e", "T", "a", "k", "e", "n">>)
    @@ ("DateTimeOriginal" :> <<"D", "a", "t", "e", "T", "i", "m", "e", "O", "r", "i", "g", "i", "n", "a", "l">>)
    @@ ("DeviceMake" :> <<"D", "e", "v", "i", "c", "e", "M", "a", "k", "e">>)
    @@ ("DeviceModel" :> <<"D", "e", "v", "i", "c", "e", "M", "o", "d", "e", "l">>)
    @@ ("DeviceName" :> <<"D", "e", "v", "i", "c", "e", "N", "a", "m", "e">>)
    @@ ("DeviceType" :> <<"D", "e", "v", "i", "c", "e", "T", "y", "p", "e">>)
    @@ ("ExposureInfo" :> <<"E", "x", "p", "o", "s", "u", "r", "e", "I", "n", "f", "o">>)
    @@ ("ExposureTime" :> <<"E", "x", "p", "o", "s", "u", "r", "e", "T", "i", "m", "e">>)
    @@ ("FNumber" :> <<"F", "N", "u", "m", "b", "e", "r">>)
    @@ ("FileModifyDate" :> <<"F", "i", "l", "e", "M", "o", "d", "i", "f", "y", "D", "a", "t", "e">>)
    @@ ("FileName" :> <<"F", "i", "l", "e", "N", "a", "m", "e">>)
    @@ ("FileSize" :> <<"F", "i", "l", "e", "S", "i", "z", "e">>)
    @@ ("Firmware" :> <<"F", "i", "r", "m", "w", "a", "r", "e">>)
    @@ ("FullModel" :> <<"F", "u", "l", "l", "M", "o", "d", "e", "l">>)
    @@ ("GPS GPSLatitude" :> <<"G", "P", "S", " ", "G", "P", "S", "L", "a", "t", "i", "t", "u", "d", "e">>)
    @@ ("GPS GPSLongitude" :> <<"G", "P", "S", " ", "G", "P", "S", "L", "o", "n", "g", "i", "t", "u", "d", "e">>)
    @@ ("GPS:GPSAltitude" :> <<"G", "P", "S", ":", "G", "P", "S", "A", "l", "t", "i", "t", "u", "d", "e">>)
    @@ ("GPS:GPSAltitudeRef" :> <<"G", "P", "S", ":", "G", "P", "S", "A", "l", "t", "i", "t", "u", "d", "e", "R", "e", "f">>)
    @@ ("GPS:GPSLatitude" :> <<"G", "P", "S", ":", "G", "P", "S", "L", "a", "t", "i", "t", "u", "d", "e">>)
    @@ ("GPS:GPSLatitudeRef" :> <<"G", "P", "S", ":", "G", "P", "S", "L", "a", "t", "i", "t", "u", "d", "e", "R", "e", "f">>)
    @@ ("GPS:GPSLongitude" :> <<"G", "P", "S", ":", "G", "P", "S", "L", "o", "n", "g", "i", "t", "u", "d", "e">>)
    @@ ("GPS:GPSLongitudeRef" :> <<"G", "P", "S", ":", "G", "P", "S", "L", "o", "n", "g", "i", "t", "u", "d", "e", "R", "e", "f">>)
    @@ ("GPS:GPSTimeStamp" :> <<"G", "P", "S", ":", "G", "P", "S", "T", "i", "m", "e", "S", "t", "a", "m", "p">>)
    @@ ("GPS:Latitude" :> <<"G", "P", "S", ":", "L", "a", "t", "i", "t", "u", "d", "e">>)
    @@ ("GPS:Longitude" :> <<"G", "P", "S", ":", "L", "o", "n", "g", "i", "t", "u", "d", "e">>)
    @@ ("GPSInfo" :> <<"G", "P", "S", "I", "n", "f", "o">>)
    @@ ("GPSLatitude" :> <<"G", "P", "S", "L", "a", "t", "i", "t", "u", "d", "e">>)
    @@ ("GPSLatitudeRef" :> <<"G", "P", "S", "L", "a", "t", "i", "t", "u", "d", "e", "R", "e", "f">>)
    @@ ("GPSLongitude" :> <<"G", "P", "S", "L", "o", "n", "g", "i", "t", "u", "d", "e">>)
    @@ ("GPSLongitudeRef" :> <<"G", "P", "S", "L", "o", "n", "g", "i", "t", "u", "d", "e", "R", "e", "f">>)
    @@ ("GPSPosition" :> <<"G", "P", "S", "P", "o", "s", "i", "t", "i", "o", "n">>)
    @@ ("GoogleMapsURL" :> <<"G", "o", "o", "g", "l", "e", "M", "a", "p", "s", "U", "R", "L">>)
    @@ ("IPTC:City" :> <<"I", "P", "T", "C", ":", "C", "i", "t", "y">>)
    @@ ("IPTC:Country" :> <<"I", "P", "T", "C", ":", "C", "o", "u", "n", "t", "r", "y">>)
    @@ ("ImageFormat" :> <<"I", "m", "a", "g", "e", "F", "o", "r", "m", "a", "t">>)
    @@ ("ImageHeight" :> <<"I", "m", "a", "g", "e", "H", "e", "i", "g", "h", "t">>)
    @@ ("ImageUniqueID" :> <<"I", "m", "a", "g", "e", "U", "n", "i", "q", "u", "e", "I", "D">>)
    @@ ("ImageWidth" :> <<"I", "m", "a", "g", "e", "W", "i", "d", "t", "h">>)
    @@ ("Latitude" :> <<"L", "a", "t", "i", "t", "u", "d", "e">>)
    @@ ("LatitudeDMS" :> <<"L", "a", "t", "i", "t", "u", "d", "e", "D", "M", "S">>)
    @@ ("Lens" :> <<"L", "e", "n", "s">>)
    @@ ("LensMake" :> <<"L", "e", "n", "s", "M", "a", "k", "e">>)
    @@ ("LensModel" :> <<"L", "e", "n", "s", "M", "o", "d", "e", "l">>)
    @@ ("LensSerialNumber" :> <<"L", "e", "n", "s", "S", "e", "r", "i", "a", "l", "N", "u", "m", "b", "e", "r">>)
    @@ ("LensSpecification" :> <<"L", "e", "n", "s", "S", "p", "e", "c", "i", "f", "i", "c", "a", "t", "i", "o", "n">>)
    @@ ("Location" :> <<"L", "o", "c", "a", "t", "i", "o", "n">>)
    @@ ("LocationName" :> <<"L", "o", "c", "a", "t", "i", "o", "n", "N", "a", "m", "e">>)
    @@ ("Longitude" :> <<"L", "o", "n", "g", "i", "t", "u", "d", "e">>)
    @@ ("LongitudeDMS" :> <<"L", "o", "n", "g", "i", "t", "u", "d", "e", "D", "M", "S">>)
    @@ ("Make" :> <<"M", "a", "k", "e">>)
    @@ ("Manufacturer" :> <<"M", "a", "n", "u", "f", "a", "c", "t", "u", "r", "e", "r">>)
    @@ ("Megapixels" :> <<"M", "e", "g", "a", "p", "i", "x", "e", "l", "s">>)
    @@ ("Model" :> <<"M", "o", "d", "e", "l">>)
    @@ ("OSVersion" :> <<"O", "S", "V", "e", "r", "s", "i", "o", "n">>)
    @@ ("OperatingSystem" :> <<"O", "p", "e", "r", "a", "t", "i", "n", "g", "S", "y", "s", "t", "e", "m">>)
    @@ ("Owner" :> <<"O", "w", "n", "e", "r">>)
    @@ ("PNG:Coordinates" :> <<"P", "N", "G", ":", "C", "o", "o", "r", "d", "i", "n", "a", "t", "e", "s">>)
    @@ ("PNG:Software" :> <<"P", "N", "G", ":", "S", "o", "f", "t", "w", "a", "r", "e">>)
    @@ ("SerialNumber" :> <<"S", "e", "r", "i", "a", "l", "N", "u", "m", "b", "e", "r">>)
    @@ ("ShootingMode" :> <<"S", "h", "o", "o", "t", "i", "n", "g", "M", "o", "d", "e">>)
    @@ ("Software" :> <<"S", "o", "f", "t", "w", "a", "r", "e">>)
    @@ ("XMP:CreatorTool" :> <<"X", "M", "P", ":", "C", "r", "e", "a", "t", "o", "r", "T", "o", "o", "l">>)
    @@ ("XMP:GPSLatitude" :> <<"X", "M", "P", ":", "G", "P", "S", "L", "a", "t", "i", "t", "u", "d", "e">>)
    @@ ("XMP:GPSLongitude" :> <<"X", "M", "P", ":", "G", "P", "S", "L", "o", "n", "g", "i", "t", "u", "d", "e">>)

\* the characters that occur in keys, in ascending code point order
CodeOrder ==
    <<" ", "-", ".">> \o Digits \o <<":">> \o UpperLetters \o <<"_">>
        \o LowerLetters
\* the rank of each character's code point
CodeRank ==
    [c \in SetOf(CodeOrder) |-> CHOOSE i \in 1..Len(CodeOrder) : CodeOrder[i] = c]
\* ord(c), up to the order
CodePoint(c) == CodeRank[c]
\* str.__lt__: a < b, character by character by code point; a proper prefix
\* is less
RECURSIVE LexLess(_, _)
LexLess(a, b) ==
    IF a = <<>> THEN b # <<>>
    ELSE IF b = <<>> THEN FALSE
    ELSE IF Head(a) = Head(b) THEN LexLess(Tail(a), Tail(b))
    ELSE CodePoint(Head(a)) < CodePoint(Head(b))

\* key1 < key2 as Python compares the two strings
KeyLess(key1, key2) == LexLess(KeySpelling[key1], KeySpelling[key2])

\* one key put into its place in a sorted sequence of other keys
InsertKey(key, seq) ==
    SelectSeq(seq, LAMBDA o : KeyLess(o, key)) \o <<key>>
        \o SelectSeq(seq, LAMBDA o : KeyLess(key, o))
\* sorted() over a set of keys
RECURSIVE SortedKeys(_)
SortedKeys(S) ==
    IF S = {} THEN <<>>
    ELSE LET key == CHOOSE k \in S : TRUE
         IN  InsertKey(key, SortedKeys(S \ {key}))
\* a sequence back to front
Reversed(seq) == [i \in 1..Len(seq) |-> seq[Len(seq) + 1 - i]]

\* sorted(processed.items(), reverse=True)
sorted_keys_reversed(md) == Reversed(SortedKeys(DOMAIN md))
\* the keys of OrderedDict(sorted(processed.items()))
sorted_keys(md) == SortedKeys(DOMAIN md)

(***************************************************************************)
(* SpecExtract: one call of MetadataExtractor.extract on a JPEG, TIFF or   *)
(* PNG file, statement by statement.  What the decoders deliver for the    *)
(* file is the input; a decoder that fails delivers nothing.               *)
(***************************************************************************)
Apple == Str(<<"A", "p", "p", "l", "e">>)
IPhone12 == Str(<<"i", "P", "h", "o", "n", "e", " ", "1", "2">>)

\* what the primary EXIF decoder delivers: GPS tags and device tags
GpsTagSets ==
    { Empty,
      ("GPS:GPSLatitude" :> Num(LatA)) @@ ("GPS:GPSLatitudeRef" :> Str(<<"N">>))
          @@ ("GPS:GPSLongitude" :> Num(LonA))
          @@ ("GPS:GPSLongitudeRef" :> Str(<<"W">>)),
      ("GPS:GPSLatitude" :> List3(40, 42, 46080))
          @@ ("GPS:GPSLongitude" :> Num(LonA))
          @@ ("GPS:GPSLongitudeRef" :> Bytes(<<"W">>)),
      ("GPS:GPSLatitude" :> Garbage),
      ("GPS:GPSAltitude" :> Num(10)) }
DeviceTagSets ==
    { Empty,
      ("Make" :> Apple) @@ ("Model" :> IPhone12),
      ("Make" :> Str(<<" ", "C", "a", "n", "o", "n">>))
          @@ ("Model" :> Str(<<"C", "a", "n", "o", "n", " ", "E", "O", "S", " ",
                               " ", "R", "5">>))
          @@ ("LensModel" :> Str(<<"E", "F", " ", "5", "0", "m", "m">>)),
      ("Model" :> Str(<<"H", "E", "R", "O", "9">>))
          @@ ("Software" :> Str(<<"v", "1", " ">>)),
      \* tags under names that later sources use as well
      ("Make" :> Apple) @@ ("ImageWidth" :> Num(9))
          @@ ("IPTC:City" :> Str(<<"p">>))
          @@ ("XMP:CreatorTool" :> Str(<<"x">>))
          @@ ("FileName" :> Str(<<"e">>)) }
ExifOutputs == { Update(g, d) : g \in GpsTagSets, d \in DeviceTagSets }

\* what the backup EXIF decoder delivers
PilOutputs ==
    { Empty,
      ("Make" :> Str(<<"s", "a", "m", "s", "u", "n", "g">>))
          @@ ("GPSLatitudeRef" :> Str(<<"S", " ">>)),
      ("Make" :> Apple) @@ ("ExposureTime" :> Num(0)),
      ("DeviceType" :> None) @@ ("FNumber" :> Quotient(14, 5))
          @@ ("DateTimeOriginal" :> DateStr(1, 7, 1)) }
IptcOutputs == { Empty, ("IPTC:City" :> Str(<<"c">>)) }
XmpOutputs ==
    { Empty,
      ("XMP:GPSLatitude" :> Num(LatX)) @@ ("XMP:GPSLongitude" :> Num(LonX))
          @@ ("XMP:CreatorTool" :> Str(<<"i", "O", "S", " ", "1", "4", ".", "4">>)) }
\* the tags of a TIFF image (img.tag_v2), under the names of PIL
TiffOutputs ==
    { Empty,
      ("Make" :> Str(<<"t">>)) @@ ("GPSInfo" :> Num(8))
          @@ ("ImageWidth" :> Num(7)) }
\* the text chunks and info entries of a PNG image, under "PNG:" names
PngOutputs ==
    { Empty,
      ("PNG:Software" :> Str(<<"g", "i", "m", "p">>)),
      ("PNG:Coordinates" :>
           DmsPairStr([d |-> 33, m |-> 0, s |-> 0, dir |-> "S"],
                      [d |-> 66, m |-> 0, s |-> 0, dir |-> "W"]))
          @@ ("PNG:Software" :> Str(<<"g", "i", "m", "p">>)) }
\* what hachoir delivers when it is installed and asked
HachoirOutputs == { Empty, ("Make" :> Apple) @@ ("Model" :> IPhone12) }
\* the basic image information and the file information
BasicInfos ==
    { ("ImageWidth" :> Num(4)) @@ ("ImageHeight" :> Num(3))
          @@ ("ImageFormat" :> Str(<<"i", "m", "g">>)) }
FileInfos ==
    { ("FileName" :> Str(<<"a", ".", "j", "p", "g">>)) @@ ("FileSize" :> Num(1))
          @@ ("FileModifyDate" :> DateTime(2, 9)) }
\* a database file with entries that are not objects
MalformedDatabase ==
    [cameras |-> << Str(<<"o", "o", "p", "s">>) >>,
     phones |-> << Str(<<"o", "o", "p", "s">>) >>]
\* the device database of the identifier, and whether Levenshtein is there
ExtractDatabases ==
    { <<Empty, FALSE>> }
    \cup { <<[cameras |-> << Entry(<<"C", "a", "n", "o", "n">>,
                                   <<"E", "O", "S", " ", "R", "5">>) >>,
              phones |-> PhoneEntries], lev>> : lev \in BOOLEAN }
    \cup { <<MalformedDatabase, FALSE>> }

\* how the two geocoding collaborators behave while a file is extracted
GeocoderSetups ==
    { [online |-> Unavailable, offline |-> Unavailable],
      [online |-> RaisesError, offline |-> ReturnsNothing],
      [online |-> ReturnsNothing, offline |-> RaisesError],
      [online |-> RaisesError,
       offline |-> Answers(CHOOSE result \in OfflineResults : TRUE)],
      [online |-> Answers(("city" :> GeoText(<<"x">>))
                              @@ ("country" :> GeoText(<<"y">>))),
       offline |-> Unavailable] }

\* the files: a JPEG file, a TIFF file, a PNG file
JpegSources ==
    [format : {"JPEG"}, exif_data : ExifOutputs, pil_exif : PilOutputs,
     iptc_data : IptcOutputs, xmp_data : XmpOutputs, tiff_tags : {Empty},
     png_text : {Empty}, hachoir_metadata : {Empty},
     basic_info : BasicInfos, file_info : FileInfos]
TiffSources ==
    [format : {"TIFF"}, exif_data : ExifOutputs, pil_exif : {Empty},
     iptc_data : {Empty}, xmp_data : XmpOutputs, tiff_tags : TiffOutputs,
     png_text : {Empty}, hachoir_metadata : {Empty},
     basic_info : BasicInfos, file_info : FileInfos]
PngSources ==
    [format : {"PNG"}, exif_data : {Empty}, pil_exif : {Empty},
     iptc_data : {Empty}, xmp_data : XmpOutputs, tiff_tags : {Empty},
     png_text : PngOutputs, hachoir_metadata : HachoirOutputs,
     basic_info : BasicInfos, file_info : FileInfos]

InitExtract ==
    /\ sources \in JpegSources \cup TiffSources \cup PngSources
    /\ pc = IF sources.format = "PNG" THEN "ex_png" ELSE "ex_exifread"
    /\ metadata = Empty
    /\ \E db \in ExtractDatabases : device_db = db[1] /\ levenshtein = db[2]
    /\ gps_info = Empty
    /\ device_profile = Empty
    /\ calls = <<>>
    /\ key_order = <<>>
    /\ raised = ""
    /\ tier = 0 /\ tiers_run = {} /\ IdlePrivacy /\ IdleDevice
    /\ lookup_tier = 0 /\ db_info = Empty /\ tags = Empty
    /\ IdleGeo /\ IdleUpdate /\ IdleGui /\ IdleFrame

\* one statement that changes the record only
ExtractStep(from, to, md) ==
    /\ pc = from
    /\ pc' = to
    /\ metadata' = md
    /\ UNCHANGED <<sources, gps_info, device_profile, calls, key_order,
                   raised, outsideExtract>>

\* _extract_jpeg_metadata: metadata.update(exif_data)
ExtractExifread ==
    ExtractStep("ex_exifread", "ex_pil", Update(metadata, sources.exif_data))
\* (mutant) the entries of the backup decoder replace the ones present
FillOverwrites(md, pil_exif) == Update(md, pil_exif)

\* the entries of pil_exif whose key is not in metadata yet are added
fill_missing(md, pil_exif) == Update(pil_exif, md)

ExtractPil ==
    ExtractStep("ex_pil", "ex_iptc", fill_missing(metadata, sources.pil_exif))
\* metadata.update(iptc_data), metadata.update(xmp_data)
ExtractIptc ==
    ExtractStep("ex_iptc", "ex_xmp", Update(metadata, sources.iptc_data))
ExtractXmp ==
    ExtractStep("ex_xmp", "ex_gps", Update(metadata, sources.xmp_data))

\* the GPS block of _extract_jpeg_metadata
\* what the GPS block leaves in the variables
GpsBlockDone(r) ==
    /\ metadata' = r.metadata
    /\ gps_info' = r.gps_info
    /\ calls' = IF r.called
                THEN Append(calls, [op |-> "parse_gps_info", arg |-> r.arg])
                ELSE calls

\* what the reverse_geocode calls of one parse_gps_info call leave in the
\* resolver
GeocodingDone(geocalls) ==
    /\ geocoding_cache' = CacheAfter(geocoding_cache, geocalls)
    /\ geo_log' = geo_log \o geocalls

\* the GPS block with the collaborators behaving as given
ExtractGpsWith(geocalls) ==
    /\ GpsBlockDone(extract_gps_information(metadata, LocationOf(geocalls)))
    /\ GeocodingDone(geocalls)

\* the GPS block of _extract_jpeg_metadata
ExtractGps ==
    /\ pc = "ex_gps"
    /\ \E setup \in GeocoderSetups :
          ExtractGpsWith(IF any_gps_key(metadata)
                         THEN GeocodeDecoded(parse_gps_info(metadata, Empty),
                                             geocoding_cache, setup.online,
                                             setup.offline)
                         ELSE <<>>)
    /\ pc' = IF sources.format = "TIFF" THEN "ex_tiff" ELSE "ex_basic"
    /\ UNCHANGED <<sources, device_profile, key_order, raised, tier,
                   tiers_run, privacyVars, deviceVars, lookupVars, tags,
                   updateVars, guiVars, frameVars>>

\* _extract_tiff_metadata after the JPEG steps: metadata[tag_name] = value
ExtractTiffTags ==
    ExtractStep("ex_tiff", "ex_basic", Update(metadata, sources.tiff_tags))

\* the record _extract_png_metadata returns: the "PNG:" entries, the XMP
\* entries, and what hachoir delivers if at most one entry was found
png_metadata(png_text, xmp_data, hachoir_metadata) ==
    IF Cardinality(DOMAIN Update(png_text, xmp_data)) <= 1
    THEN Update(Update(png_text, xmp_data), hachoir_metadata)
    ELSE Update(png_text, xmp_data)

ExtractPng ==
    ExtractStep("ex_png", "ex_basic",
                png_metadata(sources.png_text, sources.xmp_data,
                             sources.hachoir_metadata))

\* _extract_metadata_by_format: metadata.update(basic_info)
MergeBasicInfo ==
    ExtractStep("ex_basic", "ex_file", Update(metadata, sources.basic_info))
\* extract: metadata.update(file_info)
MergeFileInfo ==
    ExtractStep("ex_file", "ex_device", Update(metadata, sources.file_info))

\* extract: identify_device(metadata) and metadata.update(device_info)
IdentifyDevice ==
    /\ pc = "ex_device"
    /\ device_profile' = identify_device(metadata, device_db, levenshtein)
    /\ metadata' = Update(metadata, device_profile')
    /\ calls' = Append(calls, [op |-> "identify_device", arg |-> metadata])
    /\ pc' = "ex_normalize"
    /\ UNCHANGED <<sources, gps_info, key_order, raised, outsideExtract>>

\* extract: metadata = self._process_metadata(metadata); the call returns
\* the ordered record, or the exception of the normalizer leaves extract
\* what the call of the normalizer leaves in the variables
NormalizerDone(r) ==
    /\ raised' = r.raised
    /\ metadata' = IF r.raised = "" THEN r.v ELSE metadata
    /\ key_order' = IF r.raised = "" THEN sorted_keys(r.v) ELSE <<>>

ProcessMetadata ==
    /\ pc = "ex_normalize"
    /\ NormalizerDone(process_metadata(metadata))
    /\ calls' = Append(calls, [op |-> "_process_metadata", arg |-> metadata])
    /\ pc' = "ex_done"
    /\ UNCHANGED <<sources, gps_info, device_profile, outsideExtract>>

NextExtract ==
    \/ ExtractExifread
    \/ ExtractPil
    \/ ExtractIptc
    \/ ExtractXmp
    \/ ExtractGps
    \/ ExtractTiffTags
    \/ ExtractPng
    \/ MergeBasicInfo
    \/ MergeFileInfo
    \/ IdentifyDevice
    \/ ProcessMetadata

SpecExtract == InitExtract /\ [][NextExtract]_vars

(***************************************************************************)
(* Claims about the orchestrator, checked under SpecExtract.               *)
(***************************************************************************)
\* the record the decoders of the format handler leave, by precedence,
\* when the handler comes to its GPS block (the PNG handler has none)
MergedTags ==
    IF sources.format = "PNG"
    THEN png_metadata(sources.png_text, sources.xmp_data,
                      sources.hachoir_metadata)
    ELSE Update(Update(Update(sources.pil_exif, sources.exif_data),
                       sources.iptc_data), sources.xmp_data)
\* whether the format handler has a GPS block that runs for these tags
GpsBlockRuns == sources.format # "PNG" /\ any_gps_key(MergedTags)
\* the record extract holds when it calls the device identifier
TagsBeforeDevice ==
    Update(Update(Update(Update(MergedTags, gps_info), sources.tiff_tags),
                  sources.basic_info), sources.file_info)
\* the names of the stages called so far, in the order of the calls
CallOps == [i \in DOMAIN calls |-> calls[i].op]
\* a record every value of which the cleaning step would leave as it is
IsNormalized(md) == CleanedRecord(md) = md

\* the raw tags of the example: tier-1 latitude and longitude with the
\* references N and W, and the make and model of a smartphone
SmartphoneWithGps ==
    /\ sources.exif_data =
           ("GPS:GPSLatitude" :> Num(LatA))
               @@ ("GPS:GPSLatitudeRef" :> Str(<<"N">>))
               @@ ("GPS:GPSLongitude" :> Num(LonA))
               @@ ("GPS:GPSLongitudeRef" :> Str(<<"W">>))
               @@ ("Make" :> Apple) @@ ("Model" :> IPhone12)
    /\ sources.pil_exif = Empty
    /\ sources.iptc_data = Empty
    /\ sources.xmp_data = Empty

\* C1: for every extraction whose raw tags hold a tier-1 GPS latitude and
\* longitude with the hemisphere references N and W and a smartphone make
\* and model (GPS:GPSLatitude = 40.7128 N, GPS:GPSLongitude = 74.0060 W,
\* Make = Apple, Model = iPhone 12), the record extract returns contains
\* Latitude = 40.7128, Longitude = -74.0060, DeviceType = Smartphone and
\* PrivacyRisk = High.
C1_EndToEnd ==
    (pc = "ex_done" /\ raised = "" /\ SmartphoneWithGps) =>
        /\ Has(metadata, "Latitude") /\ metadata["Latitude"] = Num(LatA)
        /\ Has(metadata, "Longitude") /\ metadata["Longitude"] = Num(-LonA)
        /\ Has(metadata, "DeviceType") /\ metadata["DeviceType"] = Smartphone
        /\ Has(metadata, "PrivacyRisk")
        /\ metadata["PrivacyRisk"] = Str(<<"H", "i", "g", "h">>)

\* C10 as stated: in every extraction the stages run in the order merge,
\* Tag Normalizer, GPS Resolver, Device Identifier, final record: the
\* normalizer has completed before the GPS Resolver is invoked, the GPS
\* Resolver has completed before the Device Identifier is invoked, and both
\* of them read only normalized values.
C10_StatedOrder ==
    \A i \in DOMAIN calls :
        calls[i].op \in {"parse_gps_info", "identify_device"} =>
            /\ \E j \in 1..(i - 1) : calls[j].op = "_process_metadata"
            /\ IsNormalized(calls[i].arg)
            /\ \A j \in DOMAIN calls :
                   (calls[i].op = "identify_device"
                        /\ calls[j].op = "parse_gps_info") => j < i

\* C10 as amended: in every extraction the stages run in the order merge,
\* GPS Resolver (only if a key of the merged record starts with "GPS"),
\* basic and file information, Device Identifier, Tag Normalizer, final
\* record: the GPS Resolver has completed before the Device Identifier is
\* invoked and the Device Identifier before the Tag Normalizer, which runs
\* last; the GPS Resolver reads the merged tags and the Device Identifier
\* the merged tags with the GPS fields and the basic and file information,
\* both as the decoders delivered them, not normalized.
C10_ActualOrder ==
    LET expected ==
            (IF GpsBlockRuns THEN << "parse_gps_info" >> ELSE << >>)
                \o << "identify_device", "_process_metadata" >>
    IN  /\ Len(calls) <= Len(expected)
        /\ CallOps = SubSeq(expected, 1, Len(calls))
        /\ pc \in {"ex_exifread", "ex_pil", "ex_iptc", "ex_xmp", "ex_gps",
                  "ex_png"} =>
               calls = << >>
        /\ pc \in {"ex_tiff", "ex_basic", "ex_file", "ex_device"} =>
               Len(calls) = Len(expected) - 2
        /\ pc = "ex_normalize" => Len(calls) = Len(expected) - 1
        /\ pc = "ex_done" => CallOps = expected
        /\ \A i \in DOMAIN calls :
               /\ calls[i].op = "parse_gps_info" =>
                      calls[i].arg = MergedTags
               /\ calls[i].op = "identify_device" =>
                      calls[i].arg = TagsBeforeDevice
               /\ calls[i].op = "_process_metadata" =>
                      calls[i].arg = Update(TagsBeforeDevice, device_profile)

\* an extraction that has returned after the GPS Resolver found a position
\* in tags the cleaning step would have changed, and the Device Identifier
\* read tags the cleaning step would have changed
C10_Witness ==
    /\ pc = "ex_done"
    /\ raised = ""
    /\ CallOps = << "parse_gps_info", "identify_device", "_process_metadata" >>
    /\ ~IsNormalized(calls[1].arg)
    /\ ~IsNormalized(calls[2].arg)
    /\ Has(metadata, "Latitude")
    /\ IsNormalized(metadata)

\* C11: when extract folds the device profile into the record, a profile
\* field never overwrites a field of the same name already in the record:
\* every key present before the fold has the same value after it.
C11_FoldKeepsPresent ==
    [][IdentifyDevice =>
           \A key \in DOMAIN metadata : metadata'[key] = metadata[key]]_vars

\* the sources merged after the two EXIF decoders, in the order of the merge
LaterSources ==
    << sources.iptc_data, sources.xmp_data, gps_info, sources.tiff_tags,
       sources.basic_info, sources.file_info >>
\* the value of the last of the mappings that holds the key, else first
RECURSIVE LastHolding(_, _, _)
LastHolding(mappings, key, first) ==
    IF mappings = << >> THEN first
    ELSE IF Has(mappings[Len(mappings)], key)
    THEN mappings[Len(mappings)][key]
    ELSE LastHolding(SubSeq(mappings, 1, Len(mappings) - 1), key, first)

\* C12 as stated: when the raw tag mappings of several sources are merged
\* for one file, the value of the primary decoder wins on every key
\* collision, whichever later source (backup EXIF decoder, IPTC, XMP, TIFF
\* tags, basic image information, file information) supplies the same key.
C12_PrimaryAlwaysWins ==
    pc = "ex_device" =>
        \A key \in DOMAIN sources.exif_data :
            metadata[key] = sources.exif_data[key]

\* C12 as amended: the value of the primary decoder wins over the backup
\* EXIF decoder on every key collision; every source merged later (IPTC,
\* XMP, the GPS fields, TIFF tags, basic image information, file
\* information) replaces the value on a collision, so the merged record
\* holds the value of the last of them that supplies the key.
C12_PrimaryWinsOverBackup ==
    /\ pc = "ex_iptc" =>
           \A key \in DOMAIN sources.exif_data :
               metadata[key] = sources.exif_data[key]
    /\ pc = "ex_device" =>
           \A key \in DOMAIN sources.exif_data :
               metadata[key] =
                   LastHolding(LaterSources, key, sources.exif_data[key])

\* a merged record in which the primary decoder's value stands against a
\* different value of the backup decoder, and the basic image information
\* has replaced another value of the primary decoder
C12_Witness ==
    /\ pc = "ex_device"
    /\ \E key \in DOMAIN sources.exif_data \cap DOMAIN sources.pil_exif :
           /\ sources.pil_exif[key] # sources.exif_data[key]
           /\ metadata[key] = sources.exif_data[key]
    /\ \E key \in DOMAIN sources.exif_data \cap DOMAIN sources.basic_info :
           /\ sources.basic_info[key] # sources.exif_data[key]
           /\ metadata[key] = sources.basic_info[key]

\* the raw tags of the file: everything the sources deliver, merged
RawRecord ==
    Update(Update(Update(MergedTags, sources.tiff_tags), sources.basic_info),
           sources.file_info)
\* a key of one of the four detection tiers of the GPS resolver
HasGpsLikeKey(md) ==
    \/ has_exif_gps_tags(md)
    \/ has_xmp_gps_tags(md)
    \/ has_iptc_location_tags(md)
    \/ \E key \in DOMAIN md : key \in GpsLikeNames

\* C13: extract invokes the GPS Resolver in every extraction whose record
\* contains a GPS-like key of any detection tier (EXIF-style, XMP-style,
\* IPTC location fields, or a generic gps/location/coordinates key), for
\* every image format, and never invokes it when no GPS-like key exists.
C13_ResolverIffGpsLikeKey ==
    pc \in {"ex_device", "ex_normalize", "ex_done"} =>
        ((\E i \in DOMAIN calls : calls[i].op = "parse_gps_info")
             <=> HasGpsLikeKey(RawRecord))

(***************************************************************************)
(* SpecNormalize: one call of MetadataExtractor._process_metadata on a     *)
(* record of raw values.                                                   *)
(***************************************************************************)
MaxNormKeys == 3     \* keys in a record handed to the normalizer

NormalizerKeys ==
    { "Artist", "ImageWidth", "ImageHeight", "Megapixels", "AspectRatio",
      "AspectRatioName", "DateTimeOriginal", "DateTaken", "Make",
      "CameraInfo", "ExposureTime", "ExposureInfo" }

\* the raw values a key can hold
NormalizerValues(key) ==
    CASE key = "Artist" ->
           { None, Str(<<>>), Str(<<" ", "a">>), BadBytes, PyList(<<>>),
             PyList(<<None>>), PyTuple(<<Str(<<>>)>>), PyList(<<BadBytes>>),
             PyList(<<Num(1), None, Str(<<"b">>)>>), PyList(<<Num(1), None>>),
             Str(<<"a", Nul, "b">>), Str(<<"a", " ", " ", "b">>),
             PyList(<<PyList(<<Num(1), Num(2)>>), Num(3)>>),
             PyDict(("x" :> None) @@ ("y" :> Num(1))) }
      [] key = "ImageWidth" -> { Num(4), Str(<<"w">>) }
      [] key = "ImageHeight" -> { Num(3) }
      [] key = "Megapixels" -> { Num(12) }
      [] key = "AspectRatio" -> { Num(2) }
      [] key = "AspectRatioName" -> { Str(<<"w">>) }
      [] key = "DateTimeOriginal" -> { DateStr(1, 7, 1), Str(<<"d">>) }
      [] key = "DateTaken" -> { Str(<<"k">>) }
      [] key = "Make" -> { Str(<<"m">>), Num(5) }
      [] key = "CameraInfo" -> { Str(<<"c">>) }
      [] key = "ExposureTime" -> { Num(0), Num(2), Quotient(1, 2) }
      [] key = "ExposureInfo" -> { Str(<<"e">>) }

RECURSIVE NormalizerRecordsOver(_)
NormalizerRecordsOver(S) ==
    IF S = {} THEN { Empty }
    ELSE LET k == CHOOSE x \in S : TRUE
         IN  { Put(f, k, v) : f \in NormalizerRecordsOver(S \ {k}),
                              v \in NormalizerValues(k) }

NormalizerInputs ==
    UNION { NormalizerRecordsOver(S) :
                S \in { T \in SUBSET NormalizerKeys :
                            Cardinality(T) <= MaxNormKeys } }

InitNormalize ==
    /\ pc = "normalize"
    /\ tags \in NormalizerInputs
    /\ metadata = Empty
    /\ raised = ""
    /\ IdleGps /\ IdlePrivacy /\ IdleDevice /\ IdleLookup /\ IdleExtract /\ IdleGeo /\ IdleUpdate /\ IdleGui /\ IdleFrame

\* _process_metadata(tags): the ordered record it returns, or the exception
NormalizeRecord ==
    /\ pc = "normalize"
    /\ NormalizerDone(process_metadata(tags))
    /\ pc' = "nz_done"
    /\ UNCHANGED <<tags, gpsVars, privacyVars, deviceVars, lookupVars,
                   sources, device_profile, calls, geoVars, updateVars, guiVars, frameVars>>

NextNormalize == NormalizeRecord

SpecNormalize == InitNormalize /\ [][NextNormalize]_vars

\* a string, number or boolean of the record
IsScalar(v) == IsText(v) \/ IsIntOrFloat(v) \/ v.t = "exposureinfo"
\* a value the record may hold: a scalar that is not the empty string, a
\* list of scalars, or a nested record
IsRecordValue(v) ==
    \/ IsScalar(v) /\ v # Str(<<>>)
    \/ v.t = "list3"
    \/ v.t = "list" /\ \A i \in DOMAIN v.items : IsScalar(v.items[i])
    \/ v.t = "dict"

\* C14: for every input mapping, every value of the record _process_metadata
\* returns is a string, number, boolean, list of scalars or nested record,
\* and no null or empty-string value is retained at any key (also for a
\* value that arrives as a single-element list or tuple whose element is
\* null, empty or undecodable).
C14_RecordValues ==
    (pc = "nz_done" /\ raised = "") =>
        \A key \in DOMAIN metadata :
            metadata[key] # None /\ IsRecordValue(metadata[key])

\* the derived fields
DerivedNames ==
    { "AspectRatio", "AspectRatioName", "Megapixels", "DateTaken",
      "DateCreated", "DateModified", "CameraInfo", "ExposureInfo" }

\* C15: derived-field computation never overwrites an existing key: each of
\* AspectRatio, AspectRatioName, Megapixels, DateTaken / DateCreated /
\* DateModified, CameraInfo and ExposureInfo that is present in the cleaned
\* record before _add_derived_metadata keeps its value afterwards.
C15_DerivedKeepsPresent ==
    (pc = "nz_done" /\ raised = "") =>
        \A key \in DerivedNames \cap DOMAIN CleanedRecord(tags) :
            metadata[key] = CleanedRecord(tags)[key]

\* C16: the record returned by the Tag Normalizer and by extract has its
\* keys in strict lexical (ascending string) order, for every input, also
\* after derived fields and device-profile fields have been added: the
\* order of the returned record lists exactly its keys, each one less than
\* the next as strings.
C16_KeysInLexicalOrder ==
    (pc = "ex_done" /\ raised = "") =>
        /\ SetOf(key_order) = DOMAIN metadata
        /\ \A i \in 1..(Len(key_order) - 1) :
               LexLess(KeySpelling[key_order[i]], KeySpelling[key_order[i + 1]])

\* a returned record that holds raw tags, a derived field and device-profile
\* fields
C16_Witness ==
    /\ pc = "ex_done" /\ raised = ""
    /\ Len(key_order) >= 4
    /\ "Make" \in DOMAIN metadata
    /\ DerivedNames \cap DOMAIN metadata # {}
    /\ "DeviceType" \in DOMAIN device_profile
    /\ "DeviceType" \in DOMAIN metadata

\* C17: per-field failures are non-fatal: when a single field cannot be
\* decoded or formatted (an unparsable coordinate, a malformed date, a
\* numeric field whose derived formatting fails such as ExposureTime = 0),
\* no exception leaves the normalizer, the GPS resolver or extract, and every
\* field the normalizer keeps from its input is still in the record.
C17_FailuresNonFatal ==
    pc = "ex_done" =>
        /\ raised = ""
        /\ DOMAIN CleanedRecord(calls[Len(calls)].arg) \subseteq DOMAIN metadata

\* a reverse_geocode call in which no collaborator answered: each one was
\* unavailable, returned nothing or raised
NoAnswer(geocall) ==
    /\ ~geocall.hit
    /\ \A i \in DOMAIN geocall.lookups : geocall.lookups[i].kind # "answers"
\* the fields parse_gps_info computes from the coordinates themselves
CoordinateFields ==
    { "Latitude", "Longitude", "LatitudeDMS", "LongitudeDMS", "GoogleMapsURL" }

\* C18: reverse geocoding fails open: when the online and the offline
\* collaborator are unavailable, return nothing or raise, reverse_geocode
\* returns an empty mapping and parse_gps_info still returns Latitude,
\* Longitude, the DMS strings and the map URL, with no LocationName; and a
\* database lookup that fails does not abort the extraction: identify_device
\* returns, nothing is raised, and the record keeps its fields and gets the
\* fields of the profile.
C18_FailOpen ==
    /\ \A i \in DOMAIN geo_log :
           NoAnswer(geo_log[i]) =>
               /\ geo_log[i].result = Empty
               /\ CoordinateFields \subseteq DOMAIN gps_info
               /\ ~Has(gps_info, "LocationName")
    /\ (pc = "ex_normalize" /\ device_db = MalformedDatabase) =>
           /\ raised = ""
           /\ calls[Len(calls)].op = "identify_device"
           /\ DOMAIN calls[Len(calls)].arg \subseteq DOMAIN metadata
           /\ DOMAIN device_profile \subseteq DOMAIN metadata

\* an extraction in which the online geocoder raised, the offline one
\* returned nothing, and the database lookup raised
C18_Witness ==
    /\ pc = "ex_normalize" /\ device_db = MalformedDatabase
    /\ Has(device_profile, "DeviceMake") /\ Has(device_profile, "DeviceModel")
    /\ ~Has(device_profile, "DeviceName")
    /\ Len(geo_log) = 1 /\ NoAnswer(geo_log[1])
    /\ geo_log[1].lookups = << [service |-> "online", kind |-> "raises"],
                               [service |-> "offline", kind |-> "nothing"] >>
    /\ Has(gps_info, "Latitude")

(***************************************************************************)
(* SpecGeocode: one GPSParser instance and the reverse_geocode calls made  *)
(* on it, one after the other.  What the collaborators do at each call is  *)
(* the input; a collaborator may answer one call and fail the next.        *)
(***************************************************************************)
MaxGeoCalls == 2     \* reverse_geocode calls on one resolver

\* coordinates in units of 1 / DegUnit degree: the first two latitudes print
\* as 0.000000, the third as 0.000001, the fourth as -0.000000
GeoLatitudes == { 0, 1, 2, -1 }
GeoLongitudes == { 26460000 }

InitGeocode ==
    /\ pc = "geo_ready"
    /\ metadata = Empty
    /\ raised = "" /\ tags = Empty
    /\ IdleGps /\ IdlePrivacy /\ IdleDevice /\ IdleLookup /\ IdleExtract
    /\ IdleGeo /\ IdleUpdate /\ IdleGui /\ IdleFrame

\* one call reverse_geocode(latitude, longitude)
ReverseGeocode ==
    /\ pc = "geo_ready"
    /\ Len(geo_log) < MaxGeoCalls
    /\ \E latitude \in GeoLatitudes, longitude \in GeoLongitudes,
          online \in OnlineOutcomes, offline \in OfflineOutcomes :
          GeocodingDone(<< [key |-> CacheKey(latitude, longitude)]
                             @@ reverse_geocode(geocoding_cache, latitude,
                                                longitude, online, offline) >>)
    /\ UNCHANGED <<pc, metadata, gpsVars, privacyVars, deviceVars, lookupVars,
                   decoderVars, extractVars, updateVars, guiVars, frameVars>>

NextGeocode == ReverseGeocode

SpecGeocode == InitGeocode /\ [][NextGeocode]_vars

\* C19 as stated: reverse-geocode results are cached per resolver instance
\* by the coordinate rounded to 6 decimal places: after any call has
\* returned, every later call on the same instance whose coordinates round
\* to the same key returns the same result without invoking a geocoding
\* collaborator again, whatever the first result was (also an empty or a
\* failed lookup).
C19_EveryResultCached ==
    \A i, j \in DOMAIN geo_log :
        (i < j /\ geo_log[i].key = geo_log[j].key) =>
            /\ geo_log[j].result = geo_log[i].result
            /\ geo_log[j].lookups = <<>>

\* C19 as the code has it: the later call returns the same result without
\* invoking a collaborator if in the earlier call a collaborator answered
\* (also with an empty address) or the earlier call was served from the
\* cache; a call in which no collaborator answered is not cached.
C19_AnsweredResultCached ==
    \A i, j \in DOMAIN geo_log :
        (i < j /\ geo_log[i].key = geo_log[j].key /\ ~NoAnswer(geo_log[i])) =>
            /\ geo_log[j].result = geo_log[i].result
            /\ geo_log[j].lookups = <<>>
            /\ geo_log[j].hit

\* a place is found, with an empty address; the next call with coordinates
\* that round to the same key is served from the cache although the
\* collaborator would now answer with a city
C19_Witness ==
    /\ Len(geo_log) >= 2
    /\ geo_log[1].key = geo_log[2].key
    /\ geo_log[1].lookups = << [service |-> "online", kind |-> "answers"] >>
    /\ geo_log[1].result = Empty
    /\ geo_log[2].hit /\ geo_log[2].result = Empty
    /\ geo_log[2].cache = geo_log[1].cache

(***************************************************************************)
(* SpecInvalid: the normalizer, the GPS resolver and the device identifier *)
(* handed an argument of any shape: a mapping, or a value that is not a    *)
(* mapping (None, a number, text, a list, a tuple).  The geocoding         *)
(* collaborators are unavailable and the device database is empty.         *)
(***************************************************************************)
MaxItems == 2        \* elements of a list or tuple handed to a component

ArgumentItems == { Str(<<"M", "a", "k", "e">>), Num(5), None }
NotMappings ==
    { None, Num(5), Str(<<>>),
      Str(<<"G", "P", "S", "L", "a", "t", "i", "t", "u", "d", "e">>) }
        \cup { PyList(items) : items \in SeqsUpTo(ArgumentItems, MaxItems) }
        \cup { PyTuple(items) : items \in SeqsUpTo(ArgumentItems, MaxItems) }
Mappings ==
    { PyDict(Empty), PyDict(("Make" :> Apple) @@ ("Model" :> IPhone12)),
      PyDict(("GPSLatitude" :> Num(DegUnit)) @@ ("GPSLongitude" :> Num(DegUnit))) }
Arguments == NotMappings \cup Mappings

\* _process_metadata(argument): a value that is not a mapping has no items()
process_metadata_of(argument) ==
    IF argument.t = "dict" THEN process_metadata(argument.items)
    ELSE [raised |-> "AttributeError", v |-> Empty]
\* parse_gps_info(argument): whatever a value that is not a mapping raises
\* is caught, and {} is returned
parse_gps_info_of(argument) ==
    IF argument.t = "dict" THEN parse_gps_info(argument.items, Empty)
    ELSE Empty
\* identify_device(argument): whatever a value that is not a mapping raises
\* is caught, and device_info, still empty, is returned
identify_device_of(argument) ==
    IF argument.t = "dict" THEN identify_device(argument.items, Empty, FALSE)
    ELSE Empty

InitInvalid ==
    /\ pc = "inv_call"
    /\ tags \in Arguments
    /\ metadata = Empty
    /\ raised = ""
    /\ IdleGps /\ IdlePrivacy /\ IdleDevice /\ IdleLookup /\ IdleExtract
    /\ IdleGeo /\ IdleUpdate /\ IdleGui /\ IdleFrame

\* what a call of a component leaves: the record returned or the exception
ComponentDone(op, r) ==
    /\ pc' = "inv_done"
    /\ raised' = r.raised
    /\ metadata' = r.v
    /\ calls' = <<[op |-> op, arg |-> tags]>>
    /\ UNCHANGED <<tags, gpsVars, privacyVars, deviceVars, lookupVars,
                   sources, device_profile, key_order, geoVars, updateVars, guiVars, frameVars>>

NormalizeArgument ==
    /\ pc = "inv_call"
    /\ ComponentDone("_process_metadata", process_metadata_of(tags))
ResolveArgument ==
    /\ pc = "inv_call"
    /\ ComponentDone("parse_gps_info",
                     [raised |-> "", v |-> parse_gps_info_of(tags)])
IdentifyArgument ==
    /\ pc = "inv_call"
    /\ ComponentDone("identify_device",
                     [raised |-> "", v |-> identify_device_of(tags)])

NextInvalid == NormalizeArgument \/ ResolveArgument \/ IdentifyArgument

SpecInvalid == InitInvalid /\ [][NextInvalid]_vars

\* C20: structurally invalid input (the record handed to the normalizer, the
\* GPS resolver or the device identifier is not a mapping) produces an error
\* labeled Invalid Input; it never produces a partial or empty record that
\* looks like a normal result.
C20_InvalidInputLabeled ==
    (pc = "inv_done" /\ tags \in NotMappings) => raised = "Invalid Input"

(***************************************************************************)
(* SpecDbUpdate: one thread in _lookup_device_in_database and one thread   *)
(* in update_device_database on the same DeviceIdentifier.  A step of the  *)
(* reader is one of its loops; a step of the updater is one statement.     *)
(***************************************************************************)
MaxUpdates == 2      \* devices in the new_data of one update

\* the devices of new_data["cameras"]: the id is that of the first entry of
\* the category ("first") or one the category does not hold ("new")
UpdateEntries ==
    { Entry(<<"C", "a", "n", "o", "n">>, <<"E", "O", "S", " ", "R", "5">>),
      Entry(<<"C", "a", "n", "o", "n">>, <<"E", "O", "S", " ", "R", "6">>),
      Entry(<<"P", "e", "n", "t", "a", "x">>, <<"K", "-", "1">>) }
UpdatePool ==
    { [device_id |-> id, device_info |-> e] :
          id \in {"first", "new"}, e \in UpdateEntries }
\* new_data["cameras"]: a mapping holds an id once
NewData ==
    { devices \in SeqsUpTo(UpdatePool, MaxUpdates) \ { <<>> } :
          Cardinality({ i \in DOMAIN devices :
                            devices[i].device_id = "first" }) <= 1 }
UpdatedDatabases ==
    { Empty, [cameras |-> <<>>] }
        \cup { [cameras |-> <<e>>] : e \in EntryPool }

\* self.device_db[category] = {} if the category is missing
WithCategory(db, category) ==
    IF Has(db, category) THEN db ELSE Put(db, category, <<>>)
\* self.device_db[category][device_id] = device_info: the entry of a known
\* id is replaced where it is, an entry with a new id comes last
AssignDevice(entries, device, known) ==
    IF device.device_id = "first" /\ known
    THEN [entries EXCEPT ![1] = device.device_info]
    ELSE Append(entries, device.device_info)
\* the database once every device of new_data is merged
RECURSIVE MergedDatabase(_, _, _)
MergedDatabase(db, devices, known) ==
    IF devices = <<>> THEN db
    ELSE MergedDatabase([db EXCEPT !["cameras"] =
                                AssignDevice(@, Head(devices), known)],
                        Tail(devices), known)
\* the category holds an entry before the update: its first id is known
FirstKnown(db) == Has(db, "cameras") /\ db["cameras"] # <<>>

InitDbUpdate ==
    /\ pc = "lk_exact"
    /\ make = Str(<<"C", "a", "n", "o", "n">>)
    /\ model = Str(<<"E", "O", "S", " ", "R", "5">>)
    /\ device_type = None
    /\ device_db \in UpdatedDatabases
    /\ levenshtein \in BOOLEAN
    /\ lookup_tier = 0
    /\ db_info = Empty
    /\ metadata = Empty
    /\ IdleGps /\ assessment = NoAssessment /\ sensitive_fields = <<>>
    /\ IdleDecoders /\ IdleExtract /\ IdleGeo /\ IdleGui /\ IdleFrame
    /\ \E devices \in NewData :
          updater = [pc |-> "up_category", pending |-> devices,
                     new_data |-> devices, before |-> device_db,
                     saved |-> Empty]

\* what a statement of the updater leaves alone
UpdaterStep ==
    UNCHANGED <<pc, metadata, make, model, levenshtein, lookup_tier, db_info,
                gpsVars, privacyVars, decoderVars, extractVars, geoVars,
                guiVars, frameVars>>

\* if category not in self.device_db: self.device_db[category] = {}
UpdateCategory ==
    /\ updater.pc = "up_category"
    /\ device_db' = WithCategory(device_db, "cameras")
    /\ updater' = [updater EXCEPT !.pc = "up_devices"]
    /\ UpdaterStep
\* self.device_db[category][device_id] = device_info
UpdateDevice ==
    /\ updater.pc = "up_devices"
    /\ updater.pending # <<>>
    /\ device_db' = [device_db EXCEPT
                         !["cameras"] = AssignDevice(@, Head(updater.pending),
                                                     FirstKnown(updater.before))]
    /\ updater' = [updater EXCEPT !.pending = Tail(@)]
    /\ UpdaterStep
\* self._save_device_database(); return True
SaveDatabase ==
    /\ updater.pc = "up_devices"
    /\ updater.pending = <<>>
    /\ updater' = [updater EXCEPT !.pc = "up_done", !.saved = device_db]
    /\ UNCHANGED device_db
    /\ UpdaterStep

NextDbUpdate ==
    \/ LookupExact \/ LookupFuzzy \/ LookupBest
    \/ UpdateCategory \/ UpdateDevice \/ SaveDatabase

SpecDbUpdate == InitDbUpdate /\ [][NextDbUpdate]_vars

\* the reader is inside _lookup_device_in_database
ReaderRunning == pc \in {"lk_fuzzy", "lk_best"}
\* the updater has changed the database and has not yet returned
UpdaterRunning == updater.pc = "up_devices"
\* the database before the update, and after it
DatabaseBefore == updater.before
DatabaseAfter ==
    MergedDatabase(WithCategory(updater.before, "cameras"), updater.new_data,
                   FirstKnown(updater.before))

\* C21: update_device_database never runs concurrently with a read of the
\* database by another thread, and in every interleaving of an updater and a
\* lookup the reader sees the database either wholly before or wholly after
\* the update: what the lookup returns is what it returns on one of the two.
C21_SingleWriter ==
    /\ ~(ReaderRunning /\ UpdaterRunning)
    /\ pc = "lk_done" =>
           db_info \in
               { lookup_device_in_database(make, model, device_type, d,
                                           levenshtein) :
                     d \in {DatabaseBefore, DatabaseAfter} }

(***************************************************************************)
(* SpecDms: GPSParser.dms_to_decimal and GPSParser.decimal_to_dms applied  *)
(* to one argument.  The argument is either a text D° M' S.SS" DIR, which  *)
(* is parsed and then formatted again, or a decimal coordinate, which is   *)
(* formatted.  The model computes in whole thousandths of a second; the    *)
(* code computes in binary floating point, which in addition truncates     *)
(* some whole minutes to the minute before (1° 1' 0.00" N is printed as    *)
(* 1° 0' 60.00" N).                                                        *)
(***************************************************************************)
DmsDegrees == { 0, 1, 12, 179 }
DmsMinutes == { 0, 1, 34, 59 }
\* seconds of a text, in hundredths
DmsSeconds == { 0, 1, 50, 5600, 5999 }
Directions == { "N", "S", "E", "W" }
DmsTexts ==
    { DmsStr(d, m, sec, dir) :
          d \in DmsDegrees, m \in DmsMinutes, sec \in DmsSeconds,
          dir \in Directions }
\* seconds of a decimal coordinate, in thousandths
DecimalSeconds == { 0, 4, 5, 12345, 59994, 59995, 59999 }
Magnitudes ==
    { d * DegUnit + m * MinUnit + sec :
          d \in DmsDegrees, m \in DmsMinutes, sec \in DecimalSeconds }
       \cup { 180 * DegUnit }
DecimalCoordinates == Magnitudes \cup { -c : c \in Magnitudes }
AxisOf(dir) == IF dir \in {"N", "S"} THEN "lat" ELSE "lon"

InitDms ==
    /\ \/ /\ pc = "dms_parse"
          /\ tags \in DmsTexts
          /\ metadata = Empty
       \/ /\ pc = "dms_format"
          /\ \E c \in DecimalCoordinates, axis \in {"lat", "lon"} :
                /\ tags = Num(c)
                /\ metadata = [decimal |-> c, coord_type |-> axis]
    /\ raised = ""
    /\ IdleGps /\ IdlePrivacy /\ IdleDevice /\ IdleLookup /\ IdleExtract
    /\ IdleGeo /\ IdleUpdate /\ IdleGui /\ IdleFrame

\* decimal = dms_to_decimal(s)
DmsToDecimal ==
    /\ pc = "dms_parse"
    /\ LET decimal == dms_to_decimal(tags)
       IN  IF decimal.ok
           THEN /\ metadata' = [decimal |-> decimal.v,
                                coord_type |-> AxisOf(tags.dir)]
                /\ pc' = "dms_format"
                /\ UNCHANGED raised
           ELSE /\ raised' = "ValueError"
                /\ pc' = "dms_done"
                /\ UNCHANGED metadata
    /\ UNCHANGED <<tags, gpsVars, privacyVars, deviceVars, lookupVars,
                   extractVars, geoVars, updateVars, guiVars, frameVars>>

\* decimal_to_dms(decimal, coord_type)
DecimalToDms ==
    /\ pc = "dms_format"
    /\ metadata' = Put(metadata, "dms",
                       decimal_to_dms(metadata.decimal, metadata.coord_type))
    /\ pc' = "dms_done"
    /\ UNCHANGED <<decoderVars, gpsVars, privacyVars, deviceVars, lookupVars,
                   extractVars, geoVars, updateVars, guiVars, frameVars>>

NextDms == DmsToDecimal \/ DecimalToDms

SpecDms == InitDms /\ [][NextDms]_vars

\* C22: a text D° M' S.SS" DIR that is parsed and formatted again comes back
\* with the same degrees, minutes and direction letter, and with seconds
\* that differ by at most one hundredth
C22_DmsRoundTrip ==
    (pc = "dms_done" /\ tags.t = "dms") =>
        /\ raised = ""
        /\ metadata.dms.d = tags.d
        /\ metadata.dms.m = tags.m
        /\ metadata.dms.dir = tags.dir
        /\ Abs(metadata.dms.s - tags.s) <= 1

\* C27: the text printed for a decimal coordinate between -180 and 180 has
\* minutes in 0..59 and seconds, printed with two decimals, below 60.00
C27_WellFormedDms ==
    (pc = "dms_done" /\ tags.t = "num") =>
        /\ metadata.dms.m \in 0..59
        /\ metadata.dms.s < 60 * 100

(***************************************************************************)
(* SpecAlias: the first statements of DeviceIdentifier.identify_device,    *)
(* which resolve make, model and software from their alias lists.          *)
(***************************************************************************)
MaxAliasKeys == 3    \* keys in a record handed to the alias resolution

AliasKeys == { "Make", "make", "Model", "model", "Software", "software" }
AliasValues ==
    { Str(<<>>), Str(<<" ">>), Str(<<Nul>>), Str(<<"C", "a", "n", "o", "n">>),
      Str(<<"C", "a", "n", "o", "n", " ", "R", "5">>) }
AliasRecords ==
    UNION { [S -> AliasValues] :
                S \in { T \in SUBSET AliasKeys : Cardinality(T) <= MaxAliasKeys } }

InitAlias ==
    /\ pc = "al_make_model"
    /\ metadata \in AliasRecords
    /\ raised = "" /\ tags = Empty
    /\ IdleGps /\ IdlePrivacy /\ IdleDevice /\ IdleLookup /\ IdleExtract
    /\ IdleGeo /\ IdleUpdate /\ IdleGui /\ IdleFrame

\* make, model = self._extract_make_model(metadata)
ExtractMakeModel ==
    /\ pc = "al_make_model"
    /\ make' = extract_make_model(metadata).make
    /\ model' = extract_make_model(metadata).model
    /\ pc' = "al_software"
    /\ UNCHANGED <<metadata, gpsVars, privacyVars, lookupVars, decoderVars,
                   extractVars, geoVars, updateVars, guiVars, frameVars>>

\* software = self._extract_software(metadata), and the three fields added
\* to device_info if found
ExtractSoftware ==
    /\ pc = "al_software"
    /\ device_profile' =
           PutWhen(Truthy(extract_software(metadata)),
                   PutWhen(Truthy(model),
                           PutWhen(Truthy(make), Empty, "DeviceMake", make),
                           "DeviceModel", model),
                   "Software", extract_software(metadata))
    /\ pc' = "al_done"
    /\ UNCHANGED <<metadata, make, model, sources, calls, key_order, gpsVars,
                   privacyVars, lookupVars, decoderVars, geoVars, updateVars, guiVars, frameVars>>

NextAlias == ExtractMakeModel \/ ExtractSoftware

SpecAlias == InitAlias /\ [][NextAlias]_vars

\* the cleaned text of the value at an alias
CleanedAt(md, key) == clean_device_string(Strip(PyStr(md[key])))

\* the aliases of a list that are present with a value that is not empty
\* once cleaned, as positions of the list
Winners(md, keys) ==
    { i \in DOMAIN keys : Has(md, keys[i]) /\ CleanedAt(md, keys[i]) # <<>> }

\* the cleaned value of the earliest such alias
EarliestCleaned(md, keys) == Str(CleanedAt(md, keys[Least(Winners(md, keys))]))

\* a model without the make it starts with
WithoutMake(mdl, mk) ==
    IF StartsWith(Lower(mdl.w), Lower(mk.w))
    THEN Str(Strip(SubSeq(mdl.w, Len(mk.w) + 1, Len(mdl.w))))
    ELSE mdl

\* C23: make, model and software are the cleaned value of the earliest alias
\* of their list whose value is not empty (for the model, without the make it
\* starts with); an alias whose value is empty once cleaned never wins over
\* a later alias that holds a value
C23_FirstNonEmptyAliasWins ==
    pc = "al_done" =>
        /\ Winners(metadata, make_keys) # {} =>
               make = EarliestCleaned(metadata, make_keys)
        /\ Winners(metadata, model_keys) # {} =>
               model \in { EarliestCleaned(metadata, model_keys),
                           WithoutMake(EarliestCleaned(metadata, model_keys),
                                       IF Truthy(make) THEN make ELSE Str(<<>>)) }
        /\ Winners(metadata, software_keys) # {} =>
               /\ Has(device_profile, "Software")
               /\ device_profile["Software"] =
                      EarliestCleaned(metadata, software_keys)

\* the texts a value of the record holds: the value itself, or the texts
\* among the elements of a list
TextsOf(v) ==
    IF v.t = "str" THEN { v.w }
    ELSE IF v.t = "list"
    THEN { v.items[i].w : i \in { j \in DOMAIN v.items : v.items[j].t = "str" } }
    ELSE {}

\* no null byte, no control character other than the tab, and no two
\* whitespace characters in a row
IsCleanText(w) ==
    /\ \A i \in DOMAIN w : w[i] # Nul /\ w[i] \notin ControlChars
    /\ \A i \in 1..(Len(w) - 1) : ~(IsBlank(w[i]) /\ IsBlank(w[i + 1]))

\* C24: every text value of the record _process_metadata returns is clean:
\* no null byte and no control character other than the tab anywhere in it,
\* and no run of two or more whitespace characters
C24_TextIsClean ==
    (pc = "nz_done" /\ raised = "") =>
        \A key \in DOMAIN metadata :
            \A w \in TextsOf(metadata[key]) : IsCleanText(w)

\* the elements of a list that are left once it is cleaned
ElementsLeft(v) ==
    SelectSeq([i \in DOMAIN v.items |-> clean_value(v.items[i])],
              LAMBDA x : x # None)

\* C25: the record _process_metadata returns holds no empty list, no empty
\* mapping and no list of one element; a list with exactly one element left,
\* as given or after its null and empty elements were dropped, is stored as
\* that element
C25_NoTrivialCollections ==
    (pc = "nz_done" /\ raised = "") =>
        /\ \A key \in DOMAIN metadata :
               /\ metadata[key].t = "list" => Len(metadata[key].items) >= 2
               /\ metadata[key].t = "dict" => DOMAIN metadata[key].items # {}
        /\ \A key \in DOMAIN tags :
               (tags[key].t \in {"list", "tuple"}
                    /\ Len(ElementsLeft(tags[key])) = 1) =>
                   /\ Has(metadata, key)
                   /\ metadata[key] = ElementsLeft(tags[key])[1]

(***************************************************************************)
(* Claims about the lens rule and the absent device type (SpecDeviceType). *)
(***************************************************************************)
\* none of the manufacturer and keyword rules (b) to (f) applies
NoNamedRule(mk, mdl, md) ==
    \A r \in {"b", "c", "d", "e", "f-phone", "f-camera", "f-drone"} :
        ~RuleMatches(r, mk, mdl, md)
\* a lens key decides: no DeviceType key and none of the rules (b) to (f)
LensKeyDecides ==
    /\ pc = "dt_done"
    /\ ~Has(metadata, "DeviceType")
    /\ RuleMatches("g", make, model, metadata)
    /\ NoNamedRule(make, model, metadata)

\* C26 as stated: a record with a lens key, without a DeviceType key and
\* matching none of the rules (a) to (f) is a Camera whether or not make or
\* model is known; the absent type is produced only when no rule (a) to (h)
\* matches and neither make nor model is known
C26_LensKeyGivesCamera ==
    /\ LensKeyDecides => device_type = Camera
    /\ (pc = "dt_done" /\ device_type = None) =>
           /\ \A r \in {"a", "b", "c", "d", "e", "f-phone", "f-camera",
                         "f-drone", "g", "h"} :
                  ~RuleMatches(r, make, model, metadata)
           /\ ~Truthy(make) /\ ~Truthy(model)

\* C26, amended: such a record is a Camera when a make or a model is known;
\* without a DeviceType key the absent type is produced exactly when neither
\* make nor model is known, whatever keys the record holds
C26_LensKeyWithKnownDevice ==
    /\ (LensKeyDecides /\ (Truthy(make) \/ Truthy(model))) =>
           device_type = Camera
    /\ (pc = "dt_done" /\ ~Has(metadata, "DeviceType")) =>
           (device_type = None <=> (~Truthy(make) /\ ~Truthy(model)))

\* a known make that no rule names, with a lens key: Camera
C26_Witness ==
    /\ LensKeyDecides
    /\ make = Str(<<"A", "c", "m", "e">>)
    /\ device_type = Camera

(***************************************************************************)
(* SpecGui: the main window.  The handlers load_file, extract_metadata and *)
(* _start_batch_process and the callbacks scheduled with root.after run on *)
(* the main thread, one at a time; the worker threads run beside them,     *)
(* statement by statement.  The metadata of a file is the record           *)
(* MetadataOf(file); an extraction returns it or raises.                   *)
(***************************************************************************)
MaxThreads == 2      \* worker threads started in one run
MaxBatchFiles == 2   \* files of one batch

Files == { "A", "B" }
File(name) == Str(<<name>>)
MetadataOf(file) == [t |-> "dict", file |-> file]
Callback(name, argument) == [f |-> name, argument |-> argument]
\* the files chosen for a batch: at least one
BatchSelections == SeqsUpTo({ File(name) : name \in Files }, MaxBatchFiles) \ { <<>> }

InitGui ==
    /\ pc = "gui_mainloop"
    /\ metadata = Empty
    /\ raised = "" /\ tags = Empty
    /\ IdleGps /\ IdlePrivacy /\ IdleDevice /\ IdleLookup /\ IdleExtract
    /\ IdleGeo /\ IdleUpdate /\ IdleGui /\ IdleFrame

outsideGui ==
    <<pc, metadata, gpsVars, privacyVars, deviceVars, lookupVars, decoderVars,
      extractVars, geoVars, updateVars, frameVars>>

\* load_file(file_path) for a valid image: the current file is replaced and
\* clear_results empties the result view and the stored metadata
LoadFile ==
    /\ \E name \in Files : current_file' = File(name)
    /\ result_view' = None
    /\ current_metadata' = None
    /\ UNCHANGED <<processing, threads, after_queue, outsideGui>>

\* extract_metadata without the test of self.processing
ExtractMetadataUnguarded ==
    /\ Truthy(current_file)
    /\ Len(threads) < MaxThreads
    /\ processing' = TRUE
    /\ threads' = Append(threads, [kind |-> "single", pc |-> "w_start"])
    /\ UNCHANGED <<current_file, current_metadata, result_view, after_queue,
                   outsideGui>>

\* extract_metadata: returns without a file and while processing; else sets
\* processing and starts the thread of _extract_metadata_thread
ExtractMetadata ==
    /\ Truthy(current_file)
    /\ ~processing
    /\ Len(threads) < MaxThreads
    /\ processing' = TRUE
    /\ threads' = Append(threads, [kind |-> "single", pc |-> "w_start"])
    /\ UNCHANGED <<current_file, current_metadata, result_view, after_queue,
                   outsideGui>>

\* _start_batch_process(file_paths, ...): returns while processing; else
\* sets processing and starts the thread of _batch_process_thread
StartBatchProcess ==
    /\ ~processing
    /\ Len(threads) < MaxThreads
    /\ processing' = TRUE
    /\ \E file_paths \in BatchSelections :
          threads' = Append(threads, [kind |-> "batch", pc |-> "b_next",
                                      file_paths |-> file_paths])
    /\ UNCHANGED <<current_file, current_metadata, result_view, after_queue,
                   outsideGui>>

\* a worker statement leaves the main window's other fields alone
WorkerStep(i, next) ==
    /\ threads' = [threads EXCEPT ![i] = next]
    /\ UNCHANGED <<processing, current_file, result_view, outsideGui>>

\* metadata = self.metadata_extractor.extract(self.current_file): the call
WorkerCall ==
    \E i \in DOMAIN threads :
        /\ threads[i].pc = "w_start"
        /\ WorkerStep(i, [kind |-> "single", pc |-> "w_extracting",
                          file |-> current_file])
        /\ UNCHANGED <<current_metadata, after_queue>>

\* ... and its return with the metadata, or the exception it raises
WorkerReturn ==
    \E i \in DOMAIN threads :
        /\ threads[i].pc = "w_extracting"
        /\ \/ WorkerStep(i, [threads[i] EXCEPT !.pc = "w_store"])
           \/ WorkerStep(i, [threads[i] EXCEPT !.pc = "w_except"])
        /\ UNCHANGED <<current_metadata, after_queue>>

\* self.current_metadata = metadata
WorkerStore ==
    \E i \in DOMAIN threads :
        /\ threads[i].pc = "w_store"
        /\ current_metadata' = MetadataOf(threads[i].file)
        /\ WorkerStep(i, [threads[i] EXCEPT !.pc = "w_schedule"])
        /\ UNCHANGED after_queue

\* self.root.after(0, self._update_results_ui, metadata)
WorkerSchedule ==
    \E i \in DOMAIN threads :
        /\ threads[i].pc = "w_schedule"
        /\ after_queue' =
               Append(after_queue,
                      Callback("_update_results_ui", MetadataOf(threads[i].file)))
        /\ WorkerStep(i, [threads[i] EXCEPT !.pc = "w_finally"])
        /\ UNCHANGED current_metadata

\* except Exception: self.root.after(0, self._show_extraction_error, str(e))
WorkerExcept ==
    \E i \in DOMAIN threads :
        /\ threads[i].pc = "w_except"
        /\ after_queue' =
               Append(after_queue, Callback("_show_extraction_error", None))
        /\ WorkerStep(i, [threads[i] EXCEPT !.pc = "w_finally"])
        /\ UNCHANGED current_metadata

\* finally: self.root.after(0, self._finish_extraction); the thread ends
WorkerFinally ==
    \E i \in DOMAIN threads :
        /\ threads[i].pc = "w_finally"
        /\ after_queue' =
               Append(after_queue, Callback("_finish_extraction", None))
        /\ WorkerStep(i, [threads[i] EXCEPT !.pc = "ended"])
        /\ UNCHANGED current_metadata

\* the loop of _batch_process_thread: extract(file_path) is called
BatchCall ==
    \E i \in DOMAIN threads :
        /\ threads[i].pc = "b_next"
        /\ threads[i].file_paths # <<>>
        /\ WorkerStep(i, [threads[i] EXCEPT !.pc = "b_extracting"])
        /\ UNCHANGED <<current_metadata, after_queue>>

\* ... and returns or raises; the result is saved or the error is noted,
\* and the loop goes on with the next file
BatchReturn ==
    \E i \in DOMAIN threads :
        /\ threads[i].pc = "b_extracting"
        /\ WorkerStep(i, [threads[i] EXCEPT !.pc = "b_next",
                                            !.file_paths = Tail(@)])
        /\ UNCHANGED <<current_metadata, after_queue>>

\* after the loop: self.root.after(0, self._show_batch_results, ...), and
\* finally: self.root.after(0, self._finish_batch_processing)
BatchFinally ==
    \E i \in DOMAIN threads :
        /\ threads[i].pc = "b_next"
        /\ threads[i].file_paths = <<>>
        /\ after_queue' =
               after_queue \o << Callback("_show_batch_results", None),
                                 Callback("_finish_batch_processing", None) >>
        /\ WorkerStep(i, [threads[i] EXCEPT !.pc = "ended"])
        /\ UNCHANGED current_metadata

\* the main loop runs the callback scheduled first
RunCallback ==
    /\ after_queue # <<>>
    /\ after_queue' = Tail(after_queue)
    /\ LET callback == Head(after_queue)
       IN  /\ result_view' = IF callback.f = "_update_results_ui"
                             THEN callback.argument ELSE result_view
           /\ processing' =
                  IF callback.f \in {"_finish_extraction",
                                     "_finish_batch_processing"}
                  THEN FALSE ELSE processing
    /\ UNCHANGED <<current_file, current_metadata, threads, outsideGui>>

WorkerRuns ==
    \/ WorkerCall \/ WorkerReturn \/ WorkerStore \/ WorkerSchedule
    \/ WorkerExcept \/ WorkerFinally
    \/ BatchCall \/ BatchReturn \/ BatchFinally

NextGui ==
    \/ LoadFile \/ ExtractMetadata \/ StartBatchProcess
    \/ WorkerCall \/ WorkerReturn \/ WorkerStore \/ WorkerSchedule
    \/ WorkerExcept \/ WorkerFinally
    \/ BatchCall \/ BatchReturn \/ BatchFinally
    \/ RunCallback

SpecGui == InitGui /\ [][NextGui]_vars

\* the threads run and the main loop serves its callbacks
SpecGuiLive ==
    InitGui /\ [][NextGui]_vars /\ WF_vars(WorkerRuns) /\ WF_vars(RunCallback)

\* the thread is inside MetadataExtractor.extract
UsesExtractor(i) == threads[i].pc \in {"w_extracting", "b_extracting"}
FinishCallbacks == { "_finish_extraction", "_finish_batch_processing" }

\* C28: at most one worker uses the shared MetadataExtractor at any time; a
\* thread is started only while processing is false, and processing is true
\* once it is started; processing is reset only by the finish callback that
\* the ended worker scheduled; and whenever processing is true it eventually
\* becomes false again, also when the extraction raises
C28_OneWorkerAtATime ==
    /\ [](Cardinality({ i \in DOMAIN threads : UsesExtractor(i) }) <= 1)
    /\ [][Len(threads') > Len(threads) => (~processing /\ processing')]_vars
    /\ [][(processing /\ ~processing') =>
              /\ after_queue # <<>>
              /\ Head(after_queue).f \in FinishCallbacks
              /\ \A i \in DOMAIN threads : threads[i].pc = "ended"]_vars
    /\ (processing ~> ~processing)

\* a second worker is in the extractor after the first one, whose extraction
\* raised, has ended and processing was reset
C28_Witness ==
    /\ Len(threads) = 2
    /\ threads[1].pc = "ended"
    /\ UsesExtractor(2)
    /\ processing
    /\ current_metadata = None /\ Truthy(current_file)
    /\ threads[1].kind = "single"

\* C29: the metadata stored in current_metadata and the metadata shown in
\* the result view are those of the file that is current_file, in every
\* interleaving of load_file with a running worker
C29_ResultsBelongToCurrentFile ==
    /\ current_metadata # None => current_metadata = MetadataOf(current_file)
    /\ result_view # None => result_view = MetadataOf(current_file)

(***************************************************************************)
(* Device identifier: create_device_profile and the operations it calls.   *)
(***************************************************************************)
\* setting_keys of _extract_camera_settings, in its order: the EXIF key and
\* the name of the setting
setting_keys ==
    << <<"FNumber", "Aperture">>, <<"ApertureValue", "Aperture">>, <<"FocalLength", "FocalLength">>,
       <<"FocalLengthIn35mmFormat", "FocalLength35mm">>, <<"ExposureTime", "ExposureTime">>,
       <<"ShutterSpeedValue", "ShutterSpeed">>, <<"ISOSpeedRatings", "ISO">>, <<"ISO", "ISO">>,
       <<"WhiteBalance", "WhiteBalance">>, <<"MeteringMode", "MeteringMode">>,
       <<"ExposureProgram", "ExposureProgram">>, <<"ExposureMode", "ExposureMode">>,
       <<"ExposureCompensation", "ExposureCompensation">>, <<"Flash", "Flash">>,
       <<"FlashMode", "FlashMode">>, <<"FocusMode", "FocusMode">>,
       <<"DigitalZoomRatio", "DigitalZoom">> >>

\* possible_keys: the spellings tried for one EXIF key, in their order
possible_keys(exif_key) ==
    CASE exif_key = "FNumber" ->
             << "FNumber", "EXIF:FNumber", "MakerNotes:FNumber", "XMP:FNumber", "Image FNumber" >>
      [] exif_key = "ApertureValue" ->
             << "ApertureValue", "EXIF:ApertureValue", "MakerNotes:ApertureValue",
                "XMP:ApertureValue", "Image ApertureValue" >>
      [] exif_key = "FocalLength" ->
             << "FocalLength", "EXIF:FocalLength", "MakerNotes:FocalLength", "XMP:FocalLength",
                "Image FocalLength" >>
      [] exif_key = "FocalLengthIn35mmFormat" ->
             << "FocalLengthIn35mmFormat", "EXIF:FocalLengthIn35mmFormat",
                "MakerNotes:FocalLengthIn35mmFormat", "XMP:FocalLengthIn35mmFormat",
                "Image FocalLengthIn35mmFormat" >>
      [] exif_key = "ExposureTime" ->
             << "ExposureTime", "EXIF:ExposureTime", "MakerNotes:ExposureTime", "XMP:ExposureTime",
                "Image ExposureTime" >>
      [] exif_key = "ShutterSpeedValue" ->
             << "ShutterSpeedValue", "EXIF:ShutterSpeedValue", "MakerNotes:ShutterSpeedValue",
                "XMP:ShutterSpeedValue", "Image ShutterSpeedValue" >>
      [] exif_key = "ISOSpeedRatings" ->
             << "ISOSpeedRatings", "EXIF:ISOSpeedRatings", "MakerNotes:ISOSpeedRatings",
                "XMP:ISOSpeedRatings", "Image ISOSpeedRatings" >>
      [] exif_key = "ISO" ->
             << "ISO", "EXIF:ISO", "MakerNotes:ISO", "XMP:ISO", "Image ISO" >>
      [] exif_key = "WhiteBalance" ->
             << "WhiteBalance", "EXIF:WhiteBalance", "MakerNotes:WhiteBalance", "XMP:WhiteBalance",
                "Image WhiteBalance" >>
      [] exif_key = "MeteringMode" ->
             << "MeteringMode", "EXIF:MeteringMode", "MakerNotes:MeteringMode", "XMP:MeteringMode",
                "Image MeteringMode" >>
      [] exif_key = "ExposureProgram" ->
             << "ExposureProgram", "EXIF:ExposureProgram", "MakerNotes:ExposureProgram",
                "XMP:ExposureProgram", "Image ExposureProgram" >>
      [] exif_key = "ExposureMode" ->
             << "ExposureMode", "EXIF:ExposureMode", "MakerNotes:ExposureMode", "XMP:ExposureMode",
                "Image ExposureMode" >>
      [] exif_key = "ExposureCompensation" ->
             << "ExposureCompensation", "EXIF:ExposureCompensation",
                "MakerNotes:ExposureCompensation", "XMP:ExposureCompensation",
                "Image ExposureCompensation" >>
      [] exif_key = "Flash" ->
             << "Flash", "EXIF:Flash", "MakerNotes:Flash", "XMP:Flash", "Image Flash" >>
      [] exif_key = "FlashMode" ->
             << "FlashMode", "EXIF:FlashMode", "MakerNotes:FlashMode", "XMP:FlashMode",
                "Image FlashMode" >>
      [] exif_key = "FocusMode" ->
             << "FocusMode", "EXIF:FocusMode", "MakerNotes:FocusMode", "XMP:FocusMode",
                "Image FocusMode" >>
      [] exif_key = "DigitalZoomRatio" ->
             << "DigitalZoomRatio", "EXIF:DigitalZoomRatio", "MakerNotes:DigitalZoomRatio",
                "XMP:DigitalZoomRatio", "Image DigitalZoomRatio" >>

\* the text an f-string builds from one value
FormattedText(fmt, value) == [t |-> "fmt", fmt |-> fmt, value |-> value]

\* round(1 / value) for a number that is not zero
RoundedInverse(value) ==
    IF NumeratorOf(value) > 0
    THEN RoundHalfEven(DenominatorOf(value), NumeratorOf(value))
    ELSE -RoundHalfEven(DenominatorOf(value), -NumeratorOf(value))

\* the value stored for one setting, or the ZeroDivisionError of 1 / 0
SettingValue(setting_name, value) ==
    IF ~IsIntOrFloat(value) THEN Stored(value)
    ELSE CASE setting_name = "Aperture" -> Stored(FormattedText("f/{}", value))
           [] setting_name = "FocalLength" -> Stored(FormattedText("{}mm", value))
           [] setting_name = "ExposureTime" ->
                  IF NumeratorOf(value) >= DenominatorOf(value)
                  THEN Stored(FormattedText("{}s", value))
                  ELSE IF NumeratorOf(value) = 0
                  THEN Raises("ZeroDivisionError")
                  ELSE Stored(FormattedText("1/{}s", Num(RoundedInverse(value))))
           [] OTHER -> Stored(value)

\* the loop over setting_keys from entry i on; settings is the mapping so far
RECURSIVE SettingsFrom(_, _, _)
SettingsFrom(md, i, settings) ==
    IF i > Len(setting_keys) THEN [raised |-> "", v |-> settings]
    ELSE LET key == FirstNotNone(md, possible_keys(setting_keys[i][1]))
         IN  IF key = "" THEN SettingsFrom(md, i + 1, settings)
             ELSE IF SettingValue(setting_keys[i][2], md[key]).raised # ""
             THEN [raised |-> SettingValue(setting_keys[i][2], md[key]).raised,
                   v |-> Empty]
             ELSE SettingsFrom(md, i + 1,
                      Put(settings, setting_keys[i][2],
                          SettingValue(setting_keys[i][2], md[key]).v))

flash_descriptions ==
    (0 :> <<"N", "o", " ", "F", "l", "a", "s", "h">>) @@
    (1 :> <<"F", "l", "a", "s", "h", " ", "F", "i", "r", "e", "d">>) @@
    (5 :> <<"F", "l", "a", "s", "h", " ", "F", "i", "r", "e", "d", ",", " ", "R", "e", "t", "u", "r", "n", " ", "n", "o", "t", " ", "d", "e", "t", "e", "c", "t", "e", "d">>) @@
    (7 :> <<"F", "l", "a", "s", "h", " ", "F", "i", "r", "e", "d", ",", " ", "R", "e", "t", "u", "r", "n", " ", "d", "e", "t", "e", "c", "t", "e", "d">>) @@
    (8 :> <<"O", "n", ",", " ", "F", "l", "a", "s", "h", " ", "d", "i", "d", " ", "n", "o", "t", " ", "f", "i", "r", "e">>) @@
    (9 :> <<"F", "l", "a", "s", "h", " ", "F", "i", "r", "e", "d", ",", " ", "C", "o", "m", "p", "u", "l", "s", "o", "r", "y", " ", "m", "o", "d", "e">>) @@
    (13 :> <<"F", "l", "a", "s", "h", " ", "F", "i", "r", "e", "d", ",", " ", "C", "o", "m", "p", "u", "l", "s", "o", "r", "y", " ", "m", "o", "d", "e", ",", " ", "R", "e", "t", "u", "r", "n", " ", "n", "o", "t", " ", "d", "e", "t", "e", "c", "t", "e", "d">>) @@
    (15 :> <<"F", "l", "a", "s", "h", " ", "F", "i", "r", "e", "d", ",", " ", "C", "o", "m", "p", "u", "l", "s", "o", "r", "y", " ", "m", "o", "d", "e", ",", " ", "R", "e", "t", "u", "r", "n", " ", "d", "e", "t", "e", "c", "t", "e", "d">>) @@
    (16 :> <<"O", "f", "f", ",", " ", "F", "l", "a", "s", "h", " ", "d", "i", "d", " ", "n", "o", "t", " ", "f", "i", "r", "e">>) @@
    (24 :> <<"O", "f", "f", ",", " ", "F", "l", "a", "s", "h", " ", "d", "i", "d", " ", "n", "o", "t", " ", "f", "i", "r", "e", ",", " ", "R", "e", "t", "u", "r", "n", " ", "n", "o", "t", " ", "d", "e", "t", "e", "c", "t", "e", "d">>) @@
    (25 :> <<"F", "l", "a", "s", "h", " ", "F", "i", "r", "e", "d", ",", " ", "A", "u", "t", "o", " ", "m", "o", "d", "e">>) @@
    (29 :> <<"F", "l", "a", "s", "h", " ", "F", "i", "r", "e", "d", ",", " ", "A", "u", "t", "o", " ", "m", "o", "d", "e", ",", " ", "R", "e", "t", "u", "r", "n", " ", "n", "o", "t", " ", "d", "e", "t", "e", "c", "t", "e", "d">>) @@
    (31 :> <<"F", "l", "a", "s", "h", " ", "F", "i", "r", "e", "d", ",", " ", "A", "u", "t", "o", " ", "m", "o", "d", "e", ",", " ", "R", "e", "t", "u", "r", "n", " ", "d", "e", "t", "e", "c", "t", "e", "d">>) @@
    (32 :> <<"N", "o", " ", "f", "l", "a", "s", "h", " ", "f", "u", "n", "c", "t", "i", "o", "n">>) @@
    (65 :> <<"F", "l", "a", "s", "h", " ", "F", "i", "r", "e", "d", ",", " ", "R", "e", "d", "-", "e", "y", "e", " ", "r", "e", "d", "u", "c", "t", "i", "o", "n">>) @@
    (69 :> <<"F", "l", "a", "s", "h", " ", "F", "i", "r", "e", "d", ",", " ", "R", "e", "d", "-", "e", "y", "e", " ", "r", "e", "d", "u", "c", "t", "i", "o", "n", ",", " ", "R", "e", "t", "u", "r", "n", " ", "n", "o", "t", " ", "d", "e", "t", "e", "c", "t", "e", "d">>) @@
    (71 :> <<"F", "l", "a", "s", "h", " ", "F", "i", "r", "e", "d", ",", " ", "R", "e", "d", "-", "e", "y", "e", " ", "r", "e", "d", "u", "c", "t", "i", "o", "n", ",", " ", "R", "e", "t", "u", "r", "n", " ", "d", "e", "t", "e", "c", "t", "e", "d">>) @@
    (73 :> <<"F", "l", "a", "s", "h", " ", "F", "i", "r", "e", "d", ",", " ", "C", "o", "m", "p", "u", "l", "s", "o", "r", "y", " ", "m", "o", "d", "e", ",", " ", "R", "e", "d", "-", "e", "y", "e", " ", "r", "e", "d", "u", "c", "t", "i", "o", "n">>) @@
    (77 :> <<"F", "l", "a", "s", "h", " ", "F", "i", "r", "e", "d", ",", " ", "C", "o", "m", "p", "u", "l", "s", "o", "r", "y", " ", "m", "o", "d", "e", ",", " ", "R", "e", "d", "-", "e", "y", "e", " ", "r", "e", "d", "u", "c", "t", "i", "o", "n", ",", " ", "R", "e", "t", "u", "r", "n", " ", "n", "o", "t", " ", "d", "e", "t", "e", "c", "t", "e", "d">>) @@
    (79 :> <<"F", "l", "a", "s", "h", " ", "F", "i", "r", "e", "d", ",", " ", "C", "o", "m", "p", "u", "l", "s", "o", "r", "y", " ", "m", "o", "d", "e", ",", " ", "R", "e", "d", "-", "e", "y", "e", " ", "r", "e", "d", "u", "c", "t", "i", "o", "n", ",", " ", "R", "e", "t", "u", "r", "n", " ", "d", "e", "t", "e", "c", "t", "e", "d">>) @@
    (89 :> <<"F", "l", "a", "s", "h", " ", "F", "i", "r", "e", "d", ",", " ", "A", "u", "t", "o", " ", "m", "o", "d", "e", ",", " ", "R", "e", "d", "-", "e", "y", "e", " ", "r", "e", "d", "u", "c", "t", "i", "o", "n">>) @@
    (93 :> <<"F", "l", "a", "s", "h", " ", "F", "i", "r", "e", "d", ",", " ", "A", "u", "t", "o", " ", "m", "o", "d", "e", ",", " ", "R", "e", "d", "-", "e", "y", "e", " ", "r", "e", "d", "u", "c", "t", "i", "o", "n", ",", " ", "R", "e", "t", "u", "r", "n", " ", "n", "o", "t", " ", "d", "e", "t", "e", "c", "t", "e", "d">>) @@
    (95 :> <<"F", "l", "a", "s", "h", " ", "F", "i", "r", "e", "d", ",", " ", "A", "u", "t", "o", " ", "m", "o", "d", "e", ",", " ", "R", "e", "d", "-", "e", "y", "e", " ", "r", "e", "d", "u", "c", "t", "i", "o", "n", ",", " ", "R", "e", "t", "u", "r", "n", " ", "d", "e", "t", "e", "c", "t", "e", "d">>)
metering_modes ==
    (0 :> <<"U", "n", "k", "n", "o", "w", "n">>) @@ (1 :> <<"A", "v", "e", "r", "a", "g", "e">>) @@
    (2 :> <<"C", "e", "n", "t", "e", "r", "-", "w", "e", "i", "g", "h", "t", "e", "d", " ", "a", "v", "e", "r", "a", "g", "e">>) @@
    (3 :> <<"S", "p", "o", "t">>) @@ (4 :> <<"M", "u", "l", "t", "i", "-", "s", "p", "o", "t">>) @@
    (5 :> <<"P", "a", "t", "t", "e", "r", "n">>) @@ (6 :> <<"P", "a", "r", "t", "i", "a", "l">>) @@
    (255 :> <<"O", "t", "h", "e", "r">>)
wb_modes ==
    (0 :> <<"A", "u", "t", "o">>) @@ (1 :> <<"M", "a", "n", "u", "a", "l">>)

\* isinstance(value, int) or (isinstance(value, str) and value.isdigit())
IsCode(value) ==
    value.t = "num" \/ (value.t = "str" /\ IsDigitText(value.w))
\* descriptions.get(int(value), f"Unknown ({int(value)})")
Described(descriptions, value) ==
    LET code == IF value.t = "num" THEN value.n ELSE ParseInt(value.w)
    IN  IF code \in DOMAIN descriptions THEN Str(descriptions[code])
        ELSE FormattedText("Unknown ({})", Num(code))
\* a setting that holds a code is replaced by its description
Decoded(settings, setting_name, descriptions) ==
    IF Has(settings, setting_name) /\ IsCode(settings[setting_name])
    THEN Put(settings, setting_name,
             Described(descriptions, settings[setting_name]))
    ELSE settings

\* _extract_camera_settings: the mapping, or the exception that leaves it
extract_camera_settings(md) ==
    IF SettingsFrom(md, 1, Empty).raised # "" THEN SettingsFrom(md, 1, Empty)
    ELSE [raised |-> "",
          v |-> Decoded(Decoded(Decoded(SettingsFrom(md, 1, Empty).v,
                                        "Flash", flash_descriptions),
                                "MeteringMode", metering_modes),
                        "WhiteBalance", wb_modes)]

\* known_software, in its order: the keyword and the name
known_software ==
    << << <<"p", "h", "o", "t", "o", "s", "h", "o", "p">>, <<"A", "d", "o", "b", "e", " ", "P", "h", "o", "t", "o", "s", "h", "o", "p">> >>,
       << <<"l", "i", "g", "h", "t", "r", "o", "o", "m">>, <<"A", "d", "o", "b", "e", " ", "L", "i", "g", "h", "t", "r", "o", "o", "m">> >>,
       << <<"g", "i", "m", "p">>, <<"G", "I", "M", "P">> >>,
       << <<"a", "f", "f", "i", "n", "i", "t", "y">>, <<"A", "f", "f", "i", "n", "i", "t", "y", " ", "P", "h", "o", "t", "o">> >>,
       << <<"c", "a", "p", "t", "u", "r", "e", " ", "o", "n", "e">>, <<"C", "a", "p", "t", "u", "r", "e", " ", "O", "n", "e">> >>,
       << <<"l", "u", "m", "i", "n", "a", "r">>, <<"L", "u", "m", "i", "n", "a", "r">> >>,
       << <<"s", "n", "a", "p", "s", "e", "e", "d">>, <<"S", "n", "a", "p", "s", "e", "e", "d">> >>,
       << <<"i", "n", "s", "t", "a", "g", "r", "a", "m">>, <<"I", "n", "s", "t", "a", "g", "r", "a", "m">> >>,
       << <<"v", "s", "c", "o">>, <<"V", "S", "C", "O">> >>,
       << <<"p", "i", "x", "l", "r">>, <<"P", "i", "x", "l", "r">> >>,
       << <<"p", "a", "i", "n", "t", "s", "h", "o", "p">>, <<"P", "a", "i", "n", "t", "S", "h", "o", "p", " ", "P", "r", "o">> >>,
       << <<"p", "h", "o", "t", "o", "l", "a", "b">>, <<"D", "x", "O", " ", "P", "h", "o", "t", "o", "L", "a", "b">> >>,
       << <<"a", "c", "d", "s", "e", "e">>, <<"A", "C", "D", "S", "e", "e">> >>,
       << <<"a", "p", "e", "r", "t", "u", "r", "e">>, <<"A", "p", "p", "l", "e", " ", "A", "p", "e", "r", "t", "u", "r", "e">> >>,
       << <<"p", "h", "o", "t", "o", "s">>, <<"A", "p", "p", "l", "e", " ", "P", "h", "o", "t", "o", "s">> >>,
       << <<"p", "i", "c", "a", "s", "a">>, <<"G", "o", "o", "g", "l", "e", " ", "P", "i", "c", "a", "s", "a">> >>,
       << <<"d", "a", "r", "k", "t", "a", "b", "l", "e">>, <<"D", "a", "r", "k", "t", "a", "b", "l", "e">> >>,
       << <<"r", "a", "w", "t", "h", "e", "r", "a", "p", "e", "e">>, <<"R", "a", "w", "T", "h", "e", "r", "a", "p", "e", "e">> >>,
       << <<"p", "i", "x", "e", "l", "m", "a", "t", "o", "r">>, <<"P", "i", "x", "e", "l", "m", "a", "t", "o", "r">> >> >>

\* re.search(r'(\d+(?:\.\d+)+)', w): the first digits followed by a dot and
\* digits, with every further such group
DottedVersion(w) ==
    LET starts == { i \in DOMAIN w :
                       /\ w[i] \in SetOf(Digits)
                       /\ VersionEnd(w, DigitsEnd(w, i)) > DigitsEnd(w, i) }
        i == CHOOSE s \in starts : \A o \in starts : s <= o
    IN  IF starts = {} THEN Str(<<>>)
        ELSE Str(SubSeq(w, i, VersionEnd(w, DigitsEnd(w, i))))

\* software_info.get(field, '')
FieldOr(software_info, field) ==
    IF Has(software_info, field) THEN software_info[field] ELSE Str(<<>>)
\* the entry of the software category matches the name
SoftwareMatches(software_info, name_lower) ==
    LET db_name == Lower(FieldOr(software_info, "name").w)
    IN  name_lower = db_name \/ Contains(name_lower, db_name)
        \/ Contains(db_name, name_lower)

\* get_software_info(software_name) with the database db
get_software_info(software_name, db) ==
    LET entries == IF Has(db, "software") THEN db["software"] ELSE <<>>
        matching == { i \in DOMAIN entries :
                         SoftwareMatches(entries[i], Lower(software_name)) }
        known == { i \in DOMAIN known_software :
                      Contains(known_software[i][1], Lower(software_name)) }
    IN  IF software_name = <<>> THEN Empty
        ELSE IF matching # {}
        THEN [ SoftwareName |-> FieldOr(entries[Least(matching)], "name"),
               SoftwareVersion |-> FieldOr(entries[Least(matching)], "version"),
               SoftwareCompany |-> FieldOr(entries[Least(matching)], "company"),
               SoftwareType |-> FieldOr(entries[Least(matching)], "type"),
               SoftwareURL |-> FieldOr(entries[Least(matching)], "url") ]
        ELSE IF known # {}
        THEN [ SoftwareName |-> Str(known_software[Least(known)][2]),
               SoftwareVersion |-> DottedVersion(software_name) ]
        ELSE [ SoftwareName |-> Str(software_name) ]

\* device_info.get('DeviceType', 'Unknown')
ProfileDeviceType(device_info) ==
    IF Has(device_info, "DeviceType") THEN device_info["DeviceType"]
    ELSE Str(<<"U", "n", "k", "n", "o", "w", "n">>)
\* the software information that device_info does not hold yet
SoftwareDetails(device_info, db) ==
    IF Has(device_info, "Software")
    THEN get_software_info(PyStr(device_info["Software"]), db)
    ELSE Empty

\* create_device_profile: the mapping, or the exception that leaves it
create_device_profile(md, db, lev) ==
    IF extract_camera_settings(md).raised # ""
    THEN [raised |-> extract_camera_settings(md).raised, v |-> Empty]
    ELSE [raised |-> "",
          v |-> Put(Update(Update(SoftwareDetails(identify_device(md, db, lev), db),
                                  identify_device(md, db, lev)),
                           extract_camera_settings(md).v),
                    "PrivacyAssessment",
                    assess_privacy_implications(
                        md, ProfileDeviceType(identify_device(md, db, lev))))]

(***************************************************************************)
(* SpecFrame: the component operations called on mappings that have an     *)
(* identity.  heap.objects holds every mapping that exists, heap.locals    *)
(* the mapping each name of the running call refers to, heap.cache the     *)
(* mapping each key of self.geocoding_cache refers to.  An assignment      *)
(* binds a name; an item assignment or update() changes the mapping the    *)
(* name refers to, whoever else refers to it.                              *)
(***************************************************************************)
MaxFrameGroups == 2     \* groups of fields in the record handed over

Adobe == <<"A", "d", "o", "b", "e">>
Photoshop == <<"P", "h", "o", "t", "o", "s", "h", "o", "p">>

\* the groups of fields the record handed over is made of
FrameGroups ==
    { ("GPSLatitude" :> Num(DegUnit)) @@ ("GPSLongitude" :> Num(DegUnit)),
      ("GPS:GPSLatitude" :> Num(2 * DegUnit))
          @@ ("GPS:GPSLongitude" :> Num(DegUnit)),
      ("Make" :> Str(<<"C", "a", "n", "o", "n">>))
          @@ ("Model" :> Str(<<"E", "O", "S", " ", "R", "5">>)),
      ("Software" :> Str(Adobe \o <<" ">> \o Photoshop \o <<" ", "2", "1", ".", "0">>)),
      ("FNumber" :> Num(2)) @@ ("Flash" :> Num(1)),
      ("ExposureTime" :> Num(0)),
      ("Artist" :> Str(<<" ">>)) @@ ("Copyright" :> Str(<<"a", " ">>)) }

RECURSIVE Merged(_)
Merged(groups) ==
    IF groups = {} THEN Empty
    ELSE LET g == CHOOSE g \in groups : TRUE
         IN  Update(Merged(groups \ {g}), g)

FrameRecords ==
    { Merged(groups) : groups \in { G \in SUBSET FrameGroups :
                                       Cardinality(G) <= MaxFrameGroups } }

FrameDatabases ==
    { Empty,
      [cameras |-> << Entry(<<"C", "a", "n", "o", "n">>, <<"E", "O", "S", " ", "R", "5">>) >>,
       software |-> << [name |-> Str(Photoshop), company |-> Str(Adobe)] >>] }

FrameOperations ==
    { "parse_gps_info", "identify_device", "create_device_profile",
      "_process_metadata" }

\* the collaborators of reverse_geocode at one call
FrameOnline == { RaisesError } \cup { Answers(a) : a \in OnlineAddresses \ {Empty} }
FrameOffline == { ReturnsNothing } \cup { Answers(r) : r \in OfflineResults }

\* an identity no mapping of the heap has
FreshId(h) ==
    Least({ i \in 1..(Cardinality(DOMAIN h.objects) + 1) :
               i \notin DOMAIN h.objects })
\* the mapping a name of the running call refers to
Object(h, name) == h.objects[h.locals[name]]
\* the mappings the cache refers to
CachedIds(h) == { h.cache[k] : k \in DOMAIN h.cache }
\* self.geocoding_cache, by value
CacheContents(h) == [k \in DOMAIN h.cache |-> h.objects[h.cache[k]]]

\* name = {...}: a new mapping, and the name refers to it
new_dict(h, name, mapping) ==
    [h EXCEPT !.objects = Put(@, FreshId(h), mapping),
              !.locals = Put(@, name, FreshId(h))]
\* name = an existing mapping
bind(h, name, id) == [h EXCEPT !.locals = Put(@, name, id)]
\* name[key] = value, for every key of items
set_items(h, name, items) ==
    [h EXCEPT !.objects[h.locals[name]] = Update(@, items)]
\* (mutant) source.update(target)
dict_update_reversed(h, target, source) ==
    [h EXCEPT !.objects[h.locals[source]] = Update(@, Object(h, target))]
\* target.update(source)
dict_update(h, target, source) ==
    [h EXCEPT !.objects[h.locals[target]] = Update(@, Object(h, source))]
\* return name
return(h, name) == bind(h, "return", h.locals[name])

InitFrame ==
    /\ pc = "fr_ready"
    /\ metadata = Empty
    /\ device_db \in FrameDatabases
    /\ levenshtein = FALSE /\ lookup_tier = 0 /\ db_info = Empty
    /\ IdleGps /\ IdlePrivacy /\ IdleDevice /\ IdleDecoders /\ IdleExtract
    /\ IdleGeo /\ IdleUpdate /\ IdleGui /\ IdleFrame

outsideFrame ==
    <<metadata, gpsVars, privacyVars, deviceVars, lookupVars, decoderVars,
      extractVars, geoVars, updateVars, guiVars>>

FrameStep(h, to) ==
    /\ heap' = h
    /\ pc' = to
    /\ UNCHANGED outsideFrame

\* the first statement of each operation
EntryOf(op) ==
    CASE op = "parse_gps_info" -> "fr_gps_parse"
      [] op = "identify_device" -> "fr_identify"
      [] op = "create_device_profile" -> "fr_profile_identify"
      [] op = "_process_metadata" -> "fr_process_clean"

\* the caller: it drops what the last call left, except what the cache
\* refers to, and calls an operation with a record of its own
FrameCall ==
    /\ pc = "fr_ready"
    /\ \E op \in FrameOperations, md \in FrameRecords :
          FrameStep(new_dict([objects |-> [id \in CachedIds(heap) |->
                                             heap.objects[id]],
                              locals |-> Empty, cache |-> heap.cache,
                              op |-> op, hit |-> FALSE, raised |-> ""],
                             "metadata", md),
                    EntryOf(op))

\* parse_gps_info, lines 80-112: gps_info = {}, the tier parser that runs,
\* and the fields computed from the coordinates
GpsParse ==
    /\ pc = "fr_gps_parse"
    /\ LET r == ParseTier(DetectTier(Object(heap, "metadata")),
                          Object(heap, "metadata"))
           info == new_dict(new_dict(heap, "gps_info", Empty),
                            "gps_info", r.info)
       IN  IF r.raised
           THEN FrameStep(return(new_dict(new_dict(heap, "gps_info", Empty),
                                          "except", Empty), "except"),
                          "fr_ready")
           ELSE IF Has(r.info, "Latitude") /\ Has(r.info, "Longitude")
                   /\ IsNumber(r.info["Latitude"])
                   /\ IsNumber(r.info["Longitude"])
           THEN FrameStep(set_items(info, "gps_info", EnrichGps(r.info, Empty)),
                          "fr_gps_geocode")
           ELSE FrameStep(return(info, "gps_info"), "fr_ready")

\* location_info = self.reverse_geocode(latitude, longitude): the mapping
\* the cache refers to, or a new one, which the cache refers to from then on
\* if a place was found
GpsGeocode ==
    /\ pc = "fr_gps_geocode"
    /\ \E online \in FrameOnline, offline \in FrameOffline :
          LET latitude == Object(heap, "gps_info")["Latitude"].n
              longitude == Object(heap, "gps_info")["Longitude"].n
              r == reverse_geocode(CacheContents(heap), latitude, longitude,
                                   online, offline)
              made == new_dict(heap, "location_info", r.result)
          IN  IF r.hit
              THEN FrameStep([bind(heap, "location_info",
                                   heap.cache[CacheKey(latitude, longitude)])
                                 EXCEPT !.hit = TRUE],
                             "fr_gps_merge")
              ELSE IF Has(r.cache, CacheKey(latitude, longitude))
              THEN FrameStep([made EXCEPT !.cache =
                                  Put(@, CacheKey(latitude, longitude),
                                      made.locals["location_info"])],
                             "fr_gps_merge")
              ELSE FrameStep(made, "fr_gps_merge")

\* if location_info: gps_info.update(location_info); return gps_info
GpsMerge ==
    /\ pc = "fr_gps_merge"
    /\ IF Object(heap, "location_info") # Empty
       THEN FrameStep(return(dict_update(heap, "gps_info", "location_info"),
                             "gps_info"),
                      "fr_ready")
       ELSE FrameStep(return(heap, "gps_info"), "fr_ready")

\* identify_device: device_info = {}, its items, return device_info
FrameIdentify ==
    /\ pc = "fr_identify"
    /\ FrameStep(return(set_items(new_dict(heap, "device_info", Empty),
                                  "device_info",
                                  identify_device(Object(heap, "metadata"),
                                                  device_db, levenshtein)),
                        "device_info"),
                 "fr_ready")

\* create_device_profile, lines 1135-1146: device_info is what
\* identify_device returns, and the software items it does not hold yet
ProfileIdentify ==
    /\ pc = "fr_profile_identify"
    /\ LET h == new_dict(heap, "device_info",
                         identify_device(Object(heap, "metadata"), device_db,
                                         levenshtein))
       IN  FrameStep(set_items(h, "device_info",
                         Update(SoftwareDetails(Object(h, "device_info"),
                                                device_db),
                                Object(h, "device_info"))),
                     "fr_profile_settings")

\* create_device_profile, lines 1148-1151: the camera settings, merged into
\* device_info; an exception of _extract_camera_settings leaves the call
ProfileSettings ==
    /\ pc = "fr_profile_settings"
    /\ LET r == extract_camera_settings(Object(heap, "metadata"))
           h == new_dict(heap, "camera_settings", r.v)
       IN  IF r.raised # ""
           THEN FrameStep([heap EXCEPT !.raised = r.raised], "fr_ready")
           ELSE IF r.v # Empty
           THEN FrameStep(dict_update(h, "device_info", "camera_settings"),
                          "fr_profile_privacy")
           ELSE FrameStep(h, "fr_profile_privacy")

\* create_device_profile, lines 1153-1158: the privacy assessment
ProfilePrivacy ==
    /\ pc = "fr_profile_privacy"
    /\ FrameStep(return(set_items(heap, "device_info",
                     "PrivacyAssessment" :>
                         assess_privacy_implications(
                             Object(heap, "metadata"),
                             ProfileDeviceType(
                                 identify_device(Object(heap, "metadata"),
                                                 device_db, levenshtein)))),
                        "device_info"),
                 "fr_ready")

\* _process_metadata, lines 1338-1380: processed = {} and the cleaned values
ProcessClean ==
    /\ pc = "fr_process_clean"
    /\ FrameStep(set_items(new_dict(heap, "processed", Empty), "processed",
                           CleanedRecord(Object(heap, "metadata"))),
                 "fr_process_derive")

\* _process_metadata, lines 1382-1386: _add_derived_metadata works on a copy
\* of processed, and the sorted items make the mapping returned
ProcessDerive ==
    /\ pc = "fr_process_derive"
    /\ LET r == add_derived_metadata(Object(heap, "processed"))
       IN  IF r.raised # ""
           THEN FrameStep([new_dict(heap, "result", Object(heap, "processed"))
                              EXCEPT !.raised = r.raised],
                          "fr_ready")
           ELSE FrameStep(return(new_dict(new_dict(heap, "processed", r.v),
                                          "sorted", r.v),
                                 "sorted"),
                          "fr_ready")

NextFrame ==
    \/ FrameCall
    \/ GpsParse \/ GpsGeocode \/ GpsMerge
    \/ FrameIdentify
    \/ ProfileIdentify \/ ProfileSettings \/ ProfilePrivacy
    \/ ProcessClean \/ ProcessDerive

SpecFrame == InitFrame /\ [][NextFrame]_vars

\* the call has returned a mapping
Returned == pc = "fr_ready" /\ Has(heap.locals, "return")

\* C30: the component operations leave their input untouched: at no step of
\* parse_gps_info, identify_device, create_device_profile or
\* _process_metadata is a key added to, removed from or changed in the
\* mapping passed to it, the mapping returned is another one, and no step
\* changes an entry already stored in the geocoding cache.
C30_InputsUntouched ==
    /\ [][pc # "fr_ready" =>
              /\ heap.locals["metadata"] \in DOMAIN heap'.objects
              /\ heap'.objects[heap.locals["metadata"]]
                     = Object(heap, "metadata")
              /\ \A k \in DOMAIN heap.cache :
                     /\ Has(heap'.cache, k)
                     /\ heap'.cache[k] = heap.cache[k]
                     /\ heap'.objects[heap.cache[k]]
                            = heap.objects[heap.cache[k]]]_vars
    /\ [](Returned => heap.locals["return"] # heap.locals["metadata"])

\* parse_gps_info has returned the coordinates of its record with the place
\* the cache held for them
C30_Witness ==
    /\ Returned /\ heap.op = "parse_gps_info" /\ heap.hit
    /\ Has(Object(heap, "metadata"), "GPSLatitude")
    /\ Has(Object(heap, "return"), "LocationName")
    /\ Has(Object(heap, "return"), "LatitudeDMS")
    /\ heap.locals["location_info"] \in CachedIds(heap)

====
